---- MODULE Spec2Model ----
(***************************************************************************)
(* One websocket connection of the RadPair German transcription backend:   *)
(* the energy-based SpeechDetector, the RadPairHandler turn orchestration, *)
(* the MedicalTurnProcessor turn with its Gemini Live session, and the     *)
(* polish step.                                                            *)
(*                                                                         *)
(* Representation.                                                         *)
(*  - An audio frame is [id, len]: id numbers the frames in the order      *)
(*    handle_audio_chunk receives them, len is its byte length.  Its       *)
(*    samples matter only through                                          *)
(*    calculate_energy, so the RMS energy of the (even-length) bytes is an *)
(*    input drawn when the frame arrives, in hundredths (0.01 -> 1).       *)
(*  - A text is a sequence of one-character strings.                       *)
(*  - turns[i] is the i-th MedicalTurnProcessor object created on the      *)
(*    connection, sessions[i] the collaborator's view of the Live session  *)
(*    that turn acquired.  current_turn = 0 is Python's None.              *)
(*  - The message loop is one cooperative task: a handler runs to its end  *)
(*    before the next message is received, so each handler is one action.  *)
(*  - Spec is the connection.  SpecVAD, SpecPad, SpecRefine, SpecMacro,    *)
(*    SpecExpand and SpecRecord drive one component each on inputs of its  *)
(*    own: a SpeechDetector, two handlers fed raw and zero-padded frames,  *)
(*    the combine step of _create_polish, a MacroProcessor resolving       *)
(*    candidates, one expanding transcripts, and a handler with reliable   *)
(*    collaborators across several recordings.  SpecEdges and SpecBuffer   *)
(*    follow a SpeechDetector over longer runs, without the history of its *)
(*    chunks: its edges over several turns, and its buffer past the cap.   *)
(***************************************************************************)
EXTENDS Integers, Sequences, FiniteSets, TLC

VARIABLES pc, is_recording, current_study_type, turn_count,
          current_turn, completed_segments, audio_file_paths, polish_client,
          speech_detector, turns, sessions, events, polish_inputs, polish_outputs,
          nframes, nctl, faults, vad_run, pad_run, refine_run, macro_run,
          expand_run, record_run, det_run

vars == <<pc, is_recording, current_study_type, turn_count,
          current_turn, completed_segments, audio_file_paths, polish_client,
          speech_detector, turns, sessions, events, polish_inputs, polish_outputs,
          nframes, nctl, faults, vad_run, pad_run, refine_run, macro_run,
          expand_run, record_run, det_run>>


\* ------------------------------------------------------------------ bounds
\* audio frames received on the connection
MaxFrames == 13
\* failures of the external collaborators injected in one behaviour
MaxFaults == 1
\* control messages in one behaviour
MaxCtl == 2
\* chunks fed to a SpeechDetector on its own
MaxChunks == 10
\* frames fed to a handler on its own
MaxPadFrames == 11
\* turn results stored before the combine step of _create_polish
MaxSegments == 3
\* rows loaded into a macro table on its own
MaxMacros == 2
\* rows loaded into the table of a MacroProcessor that expands transcripts
MaxExpandRows == 2
\* frames and control messages given to a handler across recordings
MaxRecFrames == 6
MaxRecCtl == 3
\* "bytes" messages that reach such a handler while it is not recording
MaxDropped == 2
\* chunks given to a SpeechDetector whose edges are followed
MaxEdgeChunks == 23
\* chunks given to a SpeechDetector whose buffer is followed, and the
\* clear_buffer and get_buffer calls made on it
MaxBufferChunks == 102
MaxClears == 1
MaxCopies == 1

\* --------------------------------------------------------- program constants
PRE_CONTEXT_CHUNKS == 5
\* energy_threshold 0.01, in hundredths
energy_threshold == 1
speech_start_chunks == 3
speech_end_chunks == 7
BufferCap == 100
BufferKeep == 50
DEFAULT_STUDY_TYPE == "CT Thorax"

\* ------------------------------------------------------------------ inputs
\* RMS energies of a frame's samples, in hundredths: at the threshold, above it
Energies == {1, 2}
\* byte lengths of incoming frames: even, odd
FrameLens == {4, 3}
\* study_type field of start_recording
StudyInputs == {"MRT Kopf"}

None == 0

\* ------------------------------------------------------------- text helpers
IsSpace(c) == c \in {" ", "\n"}

\* str.lower() on the characters the inputs use
LowerChar(c) ==
    CASE c = "A" -> "a"
      [] c = "B" -> "b"
      [] c = "L" -> "l"
      [] c = "M" -> "m"
      [] OTHER -> c

Lower(s) == [i \in 1..Len(s) |-> LowerChar(s[i])]

RECURSIVE LStrip(_)
LStrip(s) == IF s # <<>> /\ IsSpace(Head(s)) THEN LStrip(Tail(s)) ELSE s

RECURSIVE RStrip(_)
RStrip(s) ==
    IF s # <<>> /\ IsSpace(s[Len(s)]) THEN RStrip(SubSeq(s, 1, Len(s) - 1)) ELSE s

\* str.strip()
Strip(s) == RStrip(LStrip(s))

\* s[i:] starts with pat
StartsWithAt(s, i, pat) ==
    /\ i + Len(pat) - 1 <= Len(s)
    /\ \A k \in 1..Len(pat) : s[i + k - 1] = pat[k]

\* str.endswith
EndsWith(s, pat) ==
    /\ Len(pat) <= Len(s)
    /\ StartsWithAt(s, Len(s) - Len(pat) + 1, pat)

\* sep.join(parts)
RECURSIVE Join(_, _)
Join(parts, sep) ==
    IF parts = <<>> THEN <<>>
    ELSE IF Len(parts) = 1 THEN parts[1]
    ELSE parts[1] \o sep \o Join(Tail(parts), sep)

\* "".join(parts)
RECURSIVE Concat(_)
Concat(parts) == IF parts = <<>> THEN <<>> ELSE Head(parts) \o Concat(Tail(parts))

\* s.split(sep) for a non-empty sep: leftmost non-overlapping occurrences
RECURSIVE SplitFrom(_, _, _, _)
SplitFrom(s, sep, i, cur) ==
    IF i > Len(s) THEN <<cur>>
    ELSE IF StartsWithAt(s, i, sep)
         THEN <<cur>> \o SplitFrom(s, sep, i + Len(sep), <<>>)
         ELSE SplitFrom(s, sep, i + 1, Append(cur, s[i]))

Split(s, sep) == SplitFrom(s, sep, 1, <<>>)

\* [x for x in seq if x]
RECURSIVE NonEmpty(_)
NonEmpty(seq) ==
    IF seq = <<>> THEN <<>>
    ELSE IF Head(seq) # <<>> THEN <<Head(seq)>> \o NonEmpty(Tail(seq))
         ELSE NonEmpty(Tail(seq))

InSeq(x, seq) == \E i \in 1..Len(seq) : seq[i] = x

\* the first of two results that was found: the first stage, or the first
\* alternative, that matches wins
FirstFound(a, b) == IF a.found THEN a ELSE b

\* ------------------------------------------------------------ MacroProcessor
\* the macro table is a dict: a sequence of [phrase, expanded] in insertion
\* order, phrases unique
HasMacro(macros, key) == \E i \in 1..Len(macros) : macros[i].phrase = key

Expansion(macros, key) ==
    macros[CHOOSE i \in 1..Len(macros) : macros[i].phrase = key].expanded

\* self.macros[normalized_phrase] = expanded: a new key is appended, an
\* existing key keeps its position and gets the new value
DictSet(macros, key, value) ==
    IF HasMacro(macros, key)
    THEN [i \in 1..Len(macros) |->
            IF macros[i].phrase = key
            THEN [phrase |-> key, expanded |-> value] ELSE macros[i]]
    ELSE Append(macros, [phrase |-> key, expanded |-> value])

\* one CSV row of _load_macros_from_csv
LoadRow(macros, phrase, expanded) ==
    IF phrase # <<>> /\ expanded # <<>>
    THEN DictSet(macros, Lower(Strip(phrase)), Strip(expanded))
    ELSE macros

\* str.split(): the maximal runs of non-whitespace
RECURSIVE WordsFrom(_, _, _)
WordsFrom(s, i, cur) ==
    IF i > Len(s) THEN (IF cur = <<>> THEN <<>> ELSE <<cur>>)
    ELSE IF IsSpace(s[i])
         THEN (IF cur = <<>> THEN <<>> ELSE <<cur>>) \o WordsFrom(s, i + 1, <<>>)
         ELSE WordsFrom(s, i + 1, Append(cur, s[i]))

Words(s) == WordsFrom(s, 1, <<>>)

\* _normalize_phrase
normalize_phrase(phrase) == Join(Words(Strip(Lower(phrase))), <<" ">>)

\* a in b, for Python strings
Contains(b, a) == \E i \in 1..(Len(b) + 1) : StartsWithAt(b, i, a)

\* difflib.SequenceMatcher, no junk: length of the common run of a[i..] and
\* b[j..] inside a[..ahi], b[..bhi]
RECURSIVE RunLen(_, _, _, _, _, _)
RunLen(a, i, ahi, b, j, bhi) ==
    IF i <= ahi /\ j <= bhi /\ a[i] = b[j]
    THEN 1 + RunLen(a, i + 1, ahi, b, j + 1, bhi)
    ELSE 0

\* find_longest_match: the longest block, of those the one starting earliest
\* in a, of those the one starting earliest in b
BestBlock(a, ahi, b, bhi, P) ==
    CHOOSE p \in P :
      \A q \in P :
         \/ RunLen(a, q[1], ahi, b, q[2], bhi) < RunLen(a, p[1], ahi, b, p[2], bhi)
         \/ /\ RunLen(a, q[1], ahi, b, q[2], bhi) = RunLen(a, p[1], ahi, b, p[2], bhi)
            /\ \/ p[1] < q[1]
               \/ p[1] = q[1] /\ p[2] <= q[2]

Block(a, ahi, b, bhi, p) == <<p[1], p[2], RunLen(a, p[1], ahi, b, p[2], bhi)>>

find_longest_match(a, alo, ahi, b, blo, bhi) ==
    IF alo > ahi \/ blo > bhi THEN <<alo, blo, 0>>
    ELSE Block(a, ahi, b, bhi, BestBlock(a, ahi, b, bhi, (alo..ahi) \X (blo..bhi)))

\* the sum of the sizes of get_matching_blocks
RECURSIVE MatchCount(_, _, _, _, _, _)
RECURSIVE MatchAround(_, _, _, _, _, _, _)
MatchAround(a, alo, ahi, b, blo, bhi, m) ==
    IF m[3] = 0 THEN 0
    ELSE MatchCount(a, alo, m[1] - 1, b, blo, m[2] - 1) + m[3]
         + MatchCount(a, m[1] + m[3], ahi, b, m[2] + m[3], bhi)

MatchCount(a, alo, ahi, b, blo, bhi) ==
    IF alo > ahi \/ blo > bhi THEN 0
    ELSE MatchAround(a, alo, ahi, b, blo, bhi,
                     find_longest_match(a, alo, ahi, b, blo, bhi))

\* ratio() = 2.0 * matches / (len(a) + len(b)), 1.0 for two empty strings,
\* in hundredths scaled by the total length: ratio >= r/100 iff
\* RatioNum * 100 >= r * RatioDen
RatioNum(a, b) == IF Len(a) + Len(b) = 0 THEN 1
                  ELSE 2 * MatchCount(a, 1, Len(a), b, 1, Len(b))

RatioDen(a, b) == IF Len(a) + Len(b) = 0 THEN 1 ELSE Len(a) + Len(b)

\* min_ratio 0.84, in hundredths
min_ratio == 84

NoMatch == [found |-> FALSE, phrase |-> <<>>, expanded |-> <<>>, stage |-> 0]

Match(macros, key, st) ==
    [found |-> TRUE, phrase |-> key, expanded |-> Expansion(macros, key),
     stage |-> st]

\* words[:i] joined
Prefix(words, i) == Join(SubSeq(words, 1, i), <<" ">>)

\* the greatest / least element of a non-empty set of numbers
MaxOf(S) == CHOOSE h \in S : \A g \in S : g <= h

MinOf(S) == CHOOSE h \in S : \A g \in S : h <= g

\* a stage 2 that counts up: range(1, len(words))
Stage2PickShortest(macros, words, hits) ==
    IF hits = {} THEN NoMatch ELSE Match(macros, Prefix(words, MinOf(hits)), 2)

Stage2Pick(macros, words, hits) ==
    IF hits = {} THEN NoMatch ELSE Match(macros, Prefix(words, MaxOf(hits)), 2)

Stage2Words(macros, words) ==
    Stage2Pick(macros, words,
               {i \in 1..(Len(words) - 1) : HasMacro(macros, Prefix(words, i))})

\* stage 2: words[:i] for i = len(words)-1 down to 1
Stage2(macros, normalized) == Stage2Words(macros, Words(normalized))

Stage3Pick(macros, hits) ==
    IF hits = {} THEN NoMatch ELSE Match(macros, macros[MinOf(hits)].phrase, 3)

\* stage 3: the first key, in dict order, that is in the phrase or that the
\* phrase is in
Stage3(macros, normalized) ==
    Stage3Pick(macros, {i \in 1..Len(macros) :
                          \/ Contains(normalized, macros[i].phrase)
                          \/ Contains(macros[i].phrase, normalized)})

\* a comparison ratio > min_ratio
BetterAbove(normalized, key, bestKey, hasBest) ==
    /\ RatioNum(normalized, key) * 100 > min_ratio * RatioDen(normalized, key)
    /\ \/ ~hasBest
       \/ RatioNum(normalized, key) * RatioDen(normalized, bestKey)
            > RatioNum(normalized, bestKey) * RatioDen(normalized, key)

\* ratio >= min_ratio and ratio > best_ratio, best being the index of the
\* best key so far (0: none, best_ratio = 0)
Better(normalized, key, bestKey, hasBest) ==
    /\ RatioNum(normalized, key) * 100 >= min_ratio * RatioDen(normalized, key)
    /\ \/ ~hasBest
       \/ RatioNum(normalized, key) * RatioDen(normalized, bestKey)
            > RatioNum(normalized, bestKey) * RatioDen(normalized, key)

\* stage 4: the loop over the keys in dict order
RECURSIVE Stage4From(_, _, _, _)
Stage4From(macros, normalized, i, best) ==
    IF i > Len(macros) THEN best
    ELSE Stage4From(macros, normalized, i + 1,
                    IF Better(normalized, macros[i].phrase,
                              IF best = 0 THEN <<>> ELSE macros[best].phrase,
                              best # 0)
                    THEN i ELSE best)

Stage4Pick(macros, best) ==
    IF best = 0 THEN NoMatch ELSE Match(macros, macros[best].phrase, 4)

Stage4(macros, normalized) == Stage4Pick(macros, Stage4From(macros, normalized, 1, 0))

\* stage 1: the normalized phrase is a key
Stage1(macros, normalized) ==
    IF HasMacro(macros, normalized) THEN Match(macros, normalized, 1) ELSE NoMatch

\* a cascade that tries containment before the exact match
CascadeContainmentFirst(macros, normalized) ==
    FirstFound(Stage3(macros, normalized),
      FirstFound(Stage1(macros, normalized),
        FirstFound(Stage2(macros, normalized), Stage4(macros, normalized))))

\* the four stages of _best_macro_match on the normalized phrase
Cascade(macros, normalized) ==
    FirstFound(Stage1(macros, normalized),
      FirstFound(Stage2(macros, normalized),
        FirstFound(Stage3(macros, normalized), Stage4(macros, normalized))))

\* _best_macro_match
best_macro_match(macros, phrase) == Cascade(macros, normalize_phrase(phrase))

\* the characters the candidate class [^\n.!?,;] excludes
IsTerminator(c) == c \in {"\n", ".", "!", "?", ",", ";"}

\* \w on the characters the inputs use
IsWordChar(c) == ~IsSpace(c) /\ c \notin {".", "!", "?", ",", ";"}

\* {1,64}
MaxPhraseLen == 64

\* invocation_patterns: the keyword alternatives of each pattern, in order
invocation_patterns ==
    << << <<"e","i","n","f","ü","g","e","n">>, <<"e","i","n","g","a","b","e">>,
          <<"m","a","k","r","o">> >>,
       << <<"f","ü","g","e"," ","e","i","n">>, <<"g","i","b"," ","e","i","n">> >>,
       << <<"i","n","s","e","r","t">>, <<"i","n","p","u","t">>,
          <<"m","a","c","r","o">> >> >>

\* the whitespace run \s+ can take from position e
RECURSIVE SpaceRun(_, _)
SpaceRun(s, e) ==
    IF e <= Len(s) /\ IsSpace(s[e]) THEN 1 + SpaceRun(s, e + 1) ELSE 0

\* the greedy candidate class from position g, n characters taken so far
RECURSIVE PhraseEnd(_, _, _)
PhraseEnd(s, g, n) ==
    IF g <= Len(s) /\ ~IsTerminator(s[g]) /\ n < MaxPhraseLen
    THEN PhraseEnd(s, g + 1, n + 1)
    ELSE g - 1

NoInvocation == [found |-> FALSE, end |-> 0, group0 |-> <<>>, group2 |-> <<>>]

\* the match from i with the candidate from g to last
Invocation(s, i, g, last) ==
    [found |-> TRUE, end |-> last, group0 |-> SubSeq(s, i, last),
     group2 |-> SubSeq(s, g, last)]

\* \s+ is greedy and gives whitespace back until a candidate character
\* follows: ks are the lengths it can end with, e is where it starts
AfterKeyword(s, i, e, ks) ==
    IF ks = {} THEN NoInvocation
    ELSE Invocation(s, i, e + MaxOf(ks), PhraseEnd(s, e + MaxOf(ks), 0))

\* keyword kw (re.IGNORECASE) at a word boundary, \s+ and the candidate,
\* matched at position i
KeywordMatch(s, i, kw) ==
    IF /\ (i = 1 \/ ~IsWordChar(s[i - 1]))
       /\ i + Len(kw) - 1 <= Len(s)
       /\ Lower(SubSeq(s, i, i + Len(kw) - 1)) = kw
    THEN AfterKeyword(s, i, i + Len(kw),
                      {k \in 1..SpaceRun(s, i + Len(kw)) :
                         /\ i + Len(kw) + k <= Len(s)
                         /\ ~IsTerminator(s[i + Len(kw) + k])})
    ELSE NoInvocation

\* one pattern at position i: the first alternative that matches
RECURSIVE PatternMatchFrom(_, _, _, _)
PatternMatchFrom(s, i, kws, a) ==
    IF a > Len(kws) THEN NoInvocation
    ELSE FirstFound(KeywordMatch(s, i, kws[a]), PatternMatchFrom(s, i, kws, a + 1))

PatternMatch(s, i, kws) == PatternMatchFrom(s, i, kws, 1)

\* re.finditer: leftmost matches, the scan going on after each match
RECURSIVE FindIter(_, _, _)
RECURSIVE FindNext(_, _, _, _)
FindNext(s, kws, pos, m) ==
    IF m.found THEN <<m>> \o FindIter(s, kws, m.end + 1)
    ELSE FindIter(s, kws, pos + 1)

FindIter(s, kws, pos) ==
    IF pos > Len(s) THEN <<>>
    ELSE FindNext(s, kws, pos, PatternMatch(s, pos, kws))

\* the replacement one match contributes
MatchReplacement(match, macro_match) ==
    IF macro_match.found
    THEN << [original |-> match.group0, expanded |-> macro_match.expanded,
             phrase |-> macro_match.phrase] >>
    ELSE <<>>

\* the replacements one pattern's matches contribute
RECURSIVE MatchReplacements(_, _)
MatchReplacements(macros, matches) ==
    IF matches = <<>> THEN <<>>
    ELSE MatchReplacement(Head(matches),
                          best_macro_match(macros, Strip(Head(matches).group2)))
         \o MatchReplacements(macros, Tail(matches))

\* the replacement list, pattern after pattern, each scanning the transcript
RECURSIVE Replacements(_, _, _)
Replacements(macros, transcript, p) ==
    IF p > Len(invocation_patterns) THEN <<>>
    ELSE MatchReplacements(macros, FindIter(transcript, invocation_patterns[p], 1))
         \o Replacements(macros, transcript, p + 1)

\* str.replace(old, new), old non-empty
Replace(s, old, new) == Join(Split(s, old), new)

\* result = result.replace(original, expanded), replacement after replacement
RECURSIVE ApplyReplacements(_, _)
ApplyReplacements(result, repls) ==
    IF repls = <<>> THEN result
    ELSE ApplyReplacements(Replace(result, Head(repls).original, Head(repls).expanded),
                           Tail(repls))

\* process_transcript_macros
process_transcript_macros(macros, transcript) ==
    IF transcript = <<>> THEN transcript
    ELSE ApplyReplacements(transcript, Replacements(macros, transcript, 1))

\* ----------------------------------------------------------- SpeechDetector
\* SpeechDetector.__init__
NewSpeechDetector ==
    [is_speaking |-> FALSE, silent_chunks |-> 0, speech_chunks |-> 0,
     buffer |-> <<>>]

\* calculate_energy: np.frombuffer raises on a byte length that is no
\* multiple of 2, and the except clause returns 0.0
calculate_energy(audio_chunk, rms) ==
    IF audio_chunk.len % 2 # 0 THEN 0 ELSE rms

\* a trim that keeps the oldest chunks
BufferAppendKeepOldest(buffer, audio_chunk) ==
    LET b == Append(buffer, audio_chunk)
    IN  IF Len(b) > BufferCap THEN SubSeq(b, 1, BufferKeep) ELSE b

\* buffer.append, then the trim of lines 106-107
BufferAppend(buffer, audio_chunk) ==
    LET b == Append(buffer, audio_chunk)
    IN  IF Len(b) > BufferCap
        THEN SubSeq(b, Len(b) - BufferKeep + 1, Len(b))
        ELSE b

\* a speech branch that fires one chunk early
StartsSpeechEarly(d, speech) ==
    ~d.is_speaking /\ speech >= speech_start_chunks - 1

\* a speech branch that does not look at is_speaking
StartsSpeechAgain(d, speech) ==
    speech >= speech_start_chunks

\* the speech branch fires speech_start
StartsSpeech(d, speech) ==
    ~d.is_speaking /\ speech >= speech_start_chunks

\* a silence branch that compares with > and fires one chunk late
EndsSpeechLate(d, silent) ==
    d.is_speaking /\ silent > speech_end_chunks

\* the silence branch fires speech_end
EndsSpeech(d, silent) ==
    d.is_speaking /\ silent >= speech_end_chunks

\* process_chunk: the new detector and the returned state change
process_chunk(d, audio_chunk, rms) ==
    LET energy == calculate_energy(audio_chunk, rms)
        buf    == BufferAppend(d.buffer, audio_chunk)
    IN  IF energy > energy_threshold
        THEN LET sp == d.speech_chunks + 1
             IN  IF StartsSpeech(d, sp)
                 THEN [det |-> [is_speaking |-> TRUE, silent_chunks |-> 0,
                                speech_chunks |-> sp, buffer |-> buf],
                       change |-> "speech_start"]
                 ELSE [det |-> [is_speaking |-> d.is_speaking, silent_chunks |-> 0,
                                speech_chunks |-> sp, buffer |-> buf],
                       change |-> "none"]
        ELSE LET si == d.silent_chunks + 1
             IN  IF EndsSpeech(d, si)
                 THEN [det |-> [is_speaking |-> FALSE, silent_chunks |-> si,
                                speech_chunks |-> 0, buffer |-> buf],
                       change |-> "speech_end"]
                 ELSE [det |-> [is_speaking |-> d.is_speaking, silent_chunks |-> si,
                                speech_chunks |-> 0, buffer |-> buf],
                       change |-> "none"]

\* get_buffer: a copy of the list
get_buffer(d) == d.buffer

\* a clear_buffer that leaves the list as it is
clear_bufferKeeps(d) == d

\* clear_buffer
clear_buffer(d) == [d EXCEPT !.buffer = <<>>]

\* a SpeechDetector driven on its own: the detector, the chunks given to
\* process_chunk with the RMS energy of their samples, and what it returned
NewRun == [det |-> NewSpeechDetector, chunks |-> <<>>, changes |-> <<>>]

\* chunks for the detector: loud, at the threshold, and loud samples with a
\* byte missing
RunInputs == { [len |-> 4, rms |-> 2], [len |-> 4, rms |-> 1], [len |-> 3, rms |-> 2] }

\* one more process_chunk call of the run
RunChunk(run, pr, chunk) ==
    [det |-> pr.det, chunks |-> Append(run.chunks, chunk),
     changes |-> Append(run.changes, pr.change)]

\* ------------------------------------------------------------ inputs, texts
\* the rows of the macro CSV files, in file order
MacroRows ==
    << [phrase |-> <<"B", " ">>, expanded |-> <<"B", ".">>] >>

RECURSIVE LoadRows(_, _)
LoadRows(macros, rows) ==
    IF rows = <<>> THEN macros
    ELSE LoadRows(LoadRow(macros, Head(rows).phrase, Head(rows).expanded), Tail(rows))

\* the module-level macro_processor, loaded once at import
macro_processor == LoadRows(<<>>, MacroRows)

\* what session.receive() yields after ActivityEnd, until the stream closes:
\* responses with a text (possibly empty) and finish_reason = STOP or not
Response(text, stop) == [text |-> text, stop |-> stop]

Streams ==
    { <<>>,
      << Response(<<"m","a","k","r","o"," ">>, FALSE), Response(<<"b">>, TRUE),
         Response(<<"a">>, FALSE) >>,
      << Response(<<" ", "a", ".">>, FALSE) >> }

\* a failure of a session call inside finalize: none, the ActivityEnd send
\* raises, or receive() raises after `at` responses were delivered
NoFault == [kind |-> "none", at |-> 0]

FinalizeFaults(stream) ==
    {NoFault, [kind |-> "end", at |-> 0]}
      \cup {[kind |-> "recv", at |-> k] : k \in 0..Len(stream)}

FaultCost(fault) == IF fault.kind = "none" THEN 0 ELSE 1

\* what models.generate_content returns for the polish prompt, or its failure
PolishOutcomes ==
    { [ok |-> TRUE, text |-> <<" ", "P", ".">>], [ok |-> FALSE, text |-> <<>>] }

\* a MacroProcessor on its own: the table while it is loaded, then a
\* candidate phrase and what _best_macro_match returned for it
NewMacroRun == [macros |-> <<>>, loaded |-> FALSE, phrase |-> <<>>, match |-> NoMatch]

\* CSV rows for such a table: a key of two words, its first word (to be
\* stripped and lowercased), keys one character apart, a key of 25
\* characters, and the key of two words written with two spaces
MacroRowInputs ==
    { [phrase |-> <<"l", "e", "b", "e", "r", " ", "n", "o", "r", "m", "a", "l">>,
       expanded |-> <<"L">>],
      [phrase |-> <<"L", "e", "b", "e", "r", " ">>,
       expanded |-> <<"l">>],
      [phrase |-> <<"a", "p", "p", "e", "n", "d", "i", "x">>,
       expanded |-> <<"X">>],
      [phrase |-> <<"a", "b", "c", "a", "b", "c", "a", "b", "d">>,
       expanded |-> <<"D">>],
      [phrase |-> <<"a", "b", "c", "a", "b", "c", "a", "b", "e">>,
       expanded |-> <<"E">>],
      [phrase |-> <<"a", "b", "c", "d", "e", "f", "g", "h", "i", "j", "k", "l", "m", "n", "o", "p", "q", "r", "s", "t", "u", "v", "w", "x", "y">>,
       expanded |-> <<"Y">>],
      [phrase |-> <<"a", "b", "c", "d", "e", "g">>,
       expanded |-> <<"G">>],
      [phrase |-> <<"l", "e", "b", "e", "r", " ", " ", "n", "o", "r", "m", "a", "l">>,
       expanded |-> <<"N">>] }

\* candidate phrases: a key up to case and spacing, a key with a word
\* after it, phrases 8 of 9, 5 of 6 and 21 of 25 characters like a key, a key
\* inside a word
Candidates ==
    { <<"L", "e", "b", "e", "r", " ", " ", "n", "o", "r", "m", "a", "l">>,
      <<"l", "e", "b", "e", "r", " ", "n", "o", "r", "m", "a", "l", " ", "b", "e", "f", "u", "n", "d">>,
      <<"a", "b", "c", "a", "b", "c", "a", "b", "f">>,
      <<"a", "b", "c", "d", "e", "f">>,
      <<"a", "b", "c", "d", "e", "f", "g", "h", "i", "j", "k", "l", "m", "n", "o", "p", "q", "r", "s", "t", "u", "z", "z", "z", "z">>,
      <<"x", "a", "p", "p", "e", "n", "d", "i", "x">> }

\* a MacroProcessor on its own that expands transcripts: the table while it
\* is loaded, then a transcript and what process_transcript_macros returned
NewExpandRun == [macros |-> <<>>, loaded |-> FALSE, text |-> <<>>, result |-> <<>>]

\* CSV rows for such a table: a key that contains the candidate "b", a key
\* whose expansion reads like an invocation, the keys "b" and "bx"
ExpandRowInputs ==
    { [phrase |-> <<"a", "b", "c">>,
       expanded |-> <<"E">>],
      [phrase |-> <<"a">>,
       expanded |-> <<"m", "a", "k", "r", "o", " ", "b">>],
      [phrase |-> <<"b">>,
       expanded |-> <<"Y">>],
      [phrase |-> <<"b", "x">>,
       expanded |-> <<"Z">>] }

\* transcripts: two invocations of which one's text starts with the
\* other's, two different and two equal invocations, a text without a keyword,
\* an English keyword, a candidate in capitals after two spaces, a candidate
\* no key is near, a keyword followed by whitespace only, and the empty
\* transcript
ExpandTexts ==
    { <<"m", "a", "k", "r", "o", " ", "b", ".", " ", "m", "a", "k", "r", "o", " ", "b", "x">>,
      <<"m", "a", "k", "r", "o", " ", "a", ".", " ", "m", "a", "k", "r", "o", " ", "b">>,
      <<"m", "a", "k", "r", "o", " ", "b", ".", " ", "m", "a", "k", "r", "o", " ", "b">>,
      <<"x", " ", "b">>,
      <<"i", "n", "s", "e", "r", "t", " ", "b">>,
      <<"m", "a", "k", "r", "o", " ", " ", "B">>,
      <<"m", "a", "k", "r", "o", " ", "q">>,
      <<"m", "a", "k", "r", "o", " ", " ", ".">>,
      <<>> }

\* ------------------------------------------------------- client event channel
\* an event sent through the websocket
Event(type, text, turn, message) ==
    [type |-> type, text |-> text, turn |-> turn, message |-> message]

\* out = [events, left, failed]: the events sent so far, the number of sends
\* that still succeed before the socket is gone (negative: it stays up), and
\* whether a send has raised
SendOk(out) == out.left # 0

\* WebSocketWrapper.send / websocket.send_json
Send(out, ev) ==
    IF SendOk(out)
    THEN [events |-> Append(out.events, ev),
          left   |-> IF out.left > 0 THEN out.left - 1 ELSE out.left,
          failed |-> out.failed]
    ELSE [out EXCEPT !.failed = TRUE]

Out(evs, left) == [events |-> evs, left |-> left, failed |-> FALSE]

\* ------------------------------------------------------ MedicalTurnProcessor
\* MedicalTurnProcessor.__init__; finalize_calls and aexit_calls count the
\* invocations of finalize and __aexit__ on the object
NewTurn(turn_number, study_type, language) ==
    [turn_number |-> turn_number, study_type |-> study_type,
     language |-> language, session |-> FALSE, entered |-> FALSE,
     accumulated_transcript |-> <<>>, last_sent_length |-> 0,
     audio_chunks |-> <<>>, audio_file_path |-> FALSE,
     finalize_calls |-> 0, aexit_calls |-> 0, errors |-> <<>>]

\* logger.error in an except clause of the turn: where it was caught and
\* whether the session or the client socket raised
Logged(turn, site, cause) ==
    [turn EXCEPT !.errors = Append(@, [site |-> site, cause |-> cause])]

\* the collaborator's side of a Live session: acquired by connect().__aenter__,
\* released by the context manager's __aexit__; stream is what receive() has
\* to deliver once ActivityEnd arrived, yielded the texts it did deliver
NewSession ==
    [acquired |-> FALSE, released |-> 0, activity_start |-> 0,
     activity_end |-> 0, received |-> <<>>, stream |-> <<>>, yielded |-> <<>>]

\* __aenter__: connect fails, or the session is acquired and the
\* ActivityStart send fails, or both succeed
aenter(turn, outcome) ==
    IF outcome = "connect_fail"
    THEN [turn |-> Logged(turn, "start", "session"), sess |-> NewSession,
          raised |-> TRUE]
    ELSE IF outcome = "start_fail"
    THEN [turn |-> Logged([turn EXCEPT !.session = TRUE], "start", "session"),
          sess |-> [NewSession EXCEPT !.acquired = TRUE],
          raised |-> TRUE]
    ELSE [turn |-> [turn EXCEPT !.session = TRUE, !.entered = TRUE],
          sess |-> [NewSession EXCEPT !.acquired = TRUE, !.activity_start = 1],
          raised |-> FALSE]

\* add_audio on ts = [turn, sess]: the chunk is kept, then sent; a failed send
\* is logged and swallowed.  pre marks pre-context in the collaborator's log
add_audio(ts, audio_chunk, ok, pre) ==
    IF ts.turn.session
    THEN [turn |-> IF ok
                   THEN [ts.turn EXCEPT !.audio_chunks = Append(@, audio_chunk)]
                   ELSE Logged([ts.turn EXCEPT !.audio_chunks = Append(@, audio_chunk)],
                               "audio", "session"),
          sess |-> IF ok
                   THEN [ts.sess EXCEPT
                           !.received = Append(@, [frame |-> audio_chunk, pre |-> pre])]
                   ELSE ts.sess]
    ELSE ts

\* the pre-context loop of handle_audio_chunk: add_audio on each chunk; the
\* send of call number failAt fails, n calls were made before
RECURSIVE AddChunks(_, _, _, _)
AddChunks(ts, chunks, n, failAt) ==
    IF chunks = <<>> THEN ts
    ELSE AddChunks(add_audio(ts, Head(chunks), n + 1 # failAt, TRUE),
                   Tail(chunks), n + 1, failAt)

\* save_audio: the file is written when there are chunks
save_audio(turn) ==
    IF turn.audio_chunks = <<>> THEN turn ELSE [turn EXCEPT !.audio_file_path = TRUE]

\* a receive loop without the break on finish_reason STOP
RECURSIVE CollectPastStop(_, _, _, _, _, _)
CollectPastStop(stream, i, parts, out, fault, turn_number) ==
    IF fault.kind = "recv" /\ fault.at = i - 1
    THEN [parts |-> parts, out |-> out, raised |-> TRUE, cause |-> "session"]
    ELSE IF i > Len(stream)
    THEN [parts |-> parts, out |-> out, raised |-> FALSE, cause |-> ""]
    ELSE LET r   == stream[i]
             ps  == IF r.text # <<>> THEN Append(parts, r.text) ELSE parts
             ev  == Event("partial_transcript", Concat(ps), turn_number, "")
             o   == IF r.text # <<>> THEN Send(out, ev) ELSE out
         IN  IF r.text # <<>> /\ ~SendOk(out)
             THEN [parts |-> ps, out |-> o, raised |-> TRUE, cause |-> "client"]
             ELSE CollectPastStop(stream, i + 1, ps, o, fault, turn_number)

\* the receive loop of finalize from response i on: the parts collected, the
\* events sent, and whether an exception left the loop
RECURSIVE Collect(_, _, _, _, _, _)
Collect(stream, i, parts, out, fault, turn_number) ==
    IF fault.kind = "recv" /\ fault.at = i - 1
    THEN [parts |-> parts, out |-> out, raised |-> TRUE, cause |-> "session"]
    ELSE IF i > Len(stream)
    THEN [parts |-> parts, out |-> out, raised |-> FALSE, cause |-> ""]
    ELSE LET r   == stream[i]
             ps  == IF r.text # <<>> THEN Append(parts, r.text) ELSE parts
             ev  == Event("partial_transcript", Concat(ps), turn_number, "")
             o   == IF r.text # <<>> THEN Send(out, ev) ELSE out
         IN  IF r.text # <<>> /\ ~SendOk(out)
             THEN [parts |-> ps, out |-> o, raised |-> TRUE, cause |-> "client"]
             ELSE IF r.stop
             THEN [parts |-> ps, out |-> o, raised |-> FALSE, cause |-> ""]
             ELSE Collect(stream, i + 1, ps, o, fault, turn_number)

\* process_transcript_macros on a non-empty transcript
MacroText(joined) ==
    IF joined # <<>> THEN process_transcript_macros(macro_processor, joined)
    ELSE joined

\* the transcript after the loop: joined, stripped, macros expanded
FinalText(parts) == MacroText(Strip(Concat(parts)))

\* what finalize leaves and returns: return self.accumulated_transcript
FinalizeResult(turn, sess, out) ==
    [turn |-> turn, sess |-> sess, out |-> out,
     result |-> turn.accumulated_transcript]

FinalEvent(turn) ==
    Event("final_transcript", turn.accumulated_transcript, turn.turn_number, "")

\* the end of finalize's try block: the final_transcript send for a non-empty
\* transcript, then save_audio; a send that raises skips save_audio
FinalizeSend(t1, s1, out) ==
    IF t1.accumulated_transcript = <<>>
    THEN FinalizeResult(save_audio(t1), s1, out)
    ELSE FinalizeResult(IF SendOk(out) THEN save_audio(t1)
                        ELSE Logged(t1, "finalize", "client"),
                        s1, Send(out, FinalEvent(t1)))

\* a finalize whose except clause keeps what the loop had collected
FinalizeCollectedKept(t0, s1, c) ==
    FinalizeSend([(IF c.raised THEN Logged(t0, "finalize", c.cause) ELSE t0)
                    EXCEPT !.accumulated_transcript = FinalText(c.parts)],
                 [s1 EXCEPT !.yielded = c.parts], c.out)

\* finalize after the receive loop c: an exception in the loop leaves
\* accumulated_transcript as it was
FinalizeCollected(t0, s1, c) ==
    IF c.raised
    THEN FinalizeResult(Logged(t0, "finalize", c.cause),
                        [s1 EXCEPT !.yielded = c.parts], c.out)
    ELSE FinalizeSend([t0 EXCEPT !.accumulated_transcript = FinalText(c.parts)],
                      [s1 EXCEPT !.yielded = c.parts], c.out)

\* finalize's body: nothing without a session; the ActivityEnd send, which
\* may raise; the receive loop
FinalizeFrom(t0, sess, out, stream, fault) ==
    IF ~t0.session THEN FinalizeResult(t0, sess, out)
    ELSE IF fault.kind = "end"
    THEN FinalizeResult(Logged(t0, "finalize", "session"), sess, out)
    ELSE FinalizeCollected(t0, [sess EXCEPT !.activity_end = @ + 1,
                                            !.stream = stream],
                           Collect(stream, 1, <<>>, out, fault, t0.turn_number))

\* finalize on ts = [turn, sess]: the new turn and session, the events sent
\* and the returned transcript
finalize(ts, out, stream, fault) ==
    FinalizeFrom([ts.turn EXCEPT !.finalize_calls = @ + 1], ts.sess, out,
                 stream, fault)

\* __aexit__ sends the accumulated transcript once more as a partial
SendsRemaining(turn) ==
    /\ turn.accumulated_transcript # <<>>
    /\ Len(turn.accumulated_transcript) > turn.last_sent_length

RemainingEvent(turn) ==
    Event("partial_transcript", Strip(turn.accumulated_transcript), 0, "")

\* the try block of __aexit__ after save_audio: an exception of the send is
\* logged and the rest of the block, the release included, is skipped
AexitSession(t1, sess, out) ==
    IF SendsRemaining(t1)
    THEN [turn |-> IF SendOk(out) THEN t1 ELSE Logged(t1, "close", "client"),
          sess |-> IF SendOk(out) THEN [sess EXCEPT !.released = @ + 1] ELSE sess,
          out  |-> Send(out, RemainingEvent(t1))]
    ELSE [turn |-> t1, sess |-> [sess EXCEPT !.released = @ + 1], out |-> out]

AexitFrom(t0, sess, out) ==
    IF ~t0.session THEN [turn |-> t0, sess |-> sess, out |-> out]
    ELSE AexitSession(save_audio(t0), sess, out)

\* __aexit__ on ts = [turn, sess]
aexit(ts, out) ==
    AexitFrom([ts.turn EXCEPT !.aexit_calls = @ + 1], ts.sess, out)

\* ------------------------------------------------------------ RadPairHandler
\* a handle_audio_chunk without the odd-length fix
PadFrameNone(audio_data) == audio_data

\* the odd-length fix of handle_audio_chunk: one zero byte is appended
PadFrame(audio_data) ==
    IF audio_data.len % 2 # 0
    THEN [audio_data EXCEPT !.len = @ + 1]
    ELSE audio_data

\* the speech_start branch is taken
OpensTurn(state_change, cur) == state_change = "speech_start" /\ cur = None

\* the speech_end branch is taken
EndsTurn(state_change, cur) == state_change = "speech_end" /\ cur # None

\* a slice taken from the wrong end: buffer[:PRE_CONTEXT_CHUNKS]
pre_contextHead(buffer) ==
    IF Len(buffer) >= PRE_CONTEXT_CHUNKS
    THEN SubSeq(buffer, 1, PRE_CONTEXT_CHUNKS)
    ELSE buffer

\* buffer[-PRE_CONTEXT_CHUNKS:] if len(buffer) >= PRE_CONTEXT_CHUNKS else buffer
pre_context(buffer) ==
    IF Len(buffer) >= PRE_CONTEXT_CHUNKS
    THEN SubSeq(buffer, Len(buffer) - PRE_CONTEXT_CHUNKS + 1, Len(buffer))
    ELSE buffer

\* completed_segments.append(result) if result
StoreSegment(segments, result) ==
    IF result # <<>> THEN Append(segments, result) ELSE segments

\* audio_file_paths.append(path) if the turn saved a file
TrackAudio(paths, turn) ==
    IF turn.audio_file_path THEN Append(paths, turn.turn_number) ELSE paths

\* the duplicate-sentence loop of _create_polish
RECURSIVE UniqueSentences(_, _, _)
UniqueSentences(sentences, seen, unique) ==
    IF sentences = <<>> THEN unique
    ELSE LET sent_clean == Lower(Strip(Head(sentences)))
         IN  IF sent_clean # <<>> /\ ~InSeq(sent_clean, seen)
             THEN UniqueSentences(Tail(sentences), Append(seen, sent_clean),
                                  Append(unique, Strip(Head(sentences))))
             ELSE UniqueSentences(Tail(sentences), seen, unique)

\* combined = " ".join([s for s in completed_segments if s])
Combined(segments) == Join(NonEmpty(segments), <<" ">>)

\* combined_transcript of _create_polish
CombinedTranscript(segments) ==
    LET unique == UniqueSentences(Split(Combined(segments), <<".", " ">>), <<>>, <<>>)
        joined == Join(unique, <<".", " ">>)
    IN  IF joined # <<>> /\ ~EndsWith(joined, <<".">>) THEN Append(joined, ".")
        ELSE joined

\* the segments of a recording on its own, and what the combine step of
\* _create_polish makes of them
NewRefine == [segments |-> <<>>, combined |-> <<>>]

\* turn results: sentences with and without their period, in two casings,
\* two sentences in one turn, and a turn without a transcript
SegmentInputs ==
    { <<"A", ".">>, <<"a", ".">>, <<"B", ".">>, <<"A", ".", " ", "B", ".">>,
      <<"b">>, <<>> }

\* a turn's result is stored and the segments are combined
Refined(segments) ==
    [segments |-> segments, combined |-> CombinedTranscript(segments)]

\* sends in a row; the first that raises ends the row
RECURSIVE SendAll(_, _)
SendAll(out, evs) ==
    IF evs = <<>> THEN out
    ELSE IF ~SendOk(out) THEN Send(out, Head(evs))
    ELSE SendAll(Send(out, Head(evs)), Tail(evs))

\* a _create_polish whose except clause only logs
create_polishSilent(segments, out, outcome) ==
    LET nothing == << Event("status", <<>>, 0, "Kein Inhalt zum Polieren") >>
        running == Event("status", <<>>, 0, "Polierung läuft...")
        done    == << running,
                      Event("polished_transcript", Strip(outcome.text), 0, ""),
                      Event("status", <<>>, 0, "Abgeschlossen") >>
        evs     == IF outcome.ok THEN done ELSE <<running>>
    IN  IF Strip(Combined(segments)) = <<>>
        THEN [out |-> SendAll(out, nothing), inputs |-> <<>>, outputs |-> <<>>,
              client |-> FALSE]
        ELSE [out |-> SendAll(out, evs),
              inputs |-> IF SendOk(out) THEN <<CombinedTranscript(segments)>> ELSE <<>>,
              outputs |-> IF SendOk(out) THEN <<outcome>> ELSE <<>>,
              client |-> SendOk(out)]

\* _create_polish: the events sent, the text handed to generate_content (if
\* the call was reached) with what the call gave, and whether the polish
\* client got cached.  A send
\* that raises inside the try block reaches the except clause, whose own send
\* raises too, the socket being gone
create_polish(segments, out, outcome) ==
    LET nothing == << Event("status", <<>>, 0, "Kein Inhalt zum Polieren") >>
        running == Event("status", <<>>, 0, "Polierung läuft...")
        done    == << running,
                      Event("polished_transcript", Strip(outcome.text), 0, ""),
                      Event("status", <<>>, 0, "Abgeschlossen") >>
        failed  == << running, Event("error", <<>>, 0, "Fehler beim Polieren") >>
        evs     == IF outcome.ok THEN done ELSE failed
    IN  IF Strip(Combined(segments)) = <<>>
        THEN [out |-> SendAll(out, nothing), inputs |-> <<>>, outputs |-> <<>>,
              client |-> FALSE]
        ELSE [out |-> SendAll(out, evs),
              inputs |-> IF SendOk(out) THEN <<CombinedTranscript(segments)>> ELSE <<>>,
              outputs |-> IF SendOk(out) THEN <<outcome>> ELSE <<>>,
              client |-> SendOk(out)]

\* the choices of how many of the n client sends of a handler succeed
\* before the socket is gone: all of them, or the first 0 .. n-1
WsChoices(n) == {-1} \cup 0..(n - 1)

Bool2Nat(b) == IF b THEN 1 ELSE 0

\* a RadPairHandler that is recording, on its own, with collaborators that do
\* not fail: the detector, the current turn with its session (cur = None:
\* no turn), the turns it closed, and the edges the detector returned
NewHandler ==
    [det |-> NewSpeechDetector, turn_count |-> 0, cur |-> None, ts |-> <<>>,
     closed |-> <<>>, segments |-> <<>>, paths |-> <<>>, events |-> <<>>,
     edges |-> <<>>]

\* two handlers side by side: raw gets the frames as they arrive, even gets
\* each odd-length frame with one zero byte appended; n frames so far, odd
\* of them of odd length
NewPair == [raw |-> NewHandler, even |-> NewHandler, n |-> 0, odd |-> 0]

\* a handler on its own across recordings: is_recording, the frames and
\* control messages it got, and the number of frames above the threshold in a
\* row that it handled while recording without a turn at their arrival; the
\* "bytes" messages that came while it was not recording, and the number of
\* frames handled before the last of them
NewRecording ==
    [h |-> NewHandler, is_recording |-> FALSE, n |-> 0, nctl |-> 0, idle_loud |-> 0,
     dropped |-> 0, dropped_at |-> 0]

\* a SpeechDetector followed without the history of its chunks: the detector,
\* the number of process_chunk calls, the state change of the last call and
\* the edges returned so far, the number of clear_buffer calls and of
\* process_chunk calls before the last of them, and the number of get_buffer
\* calls
NewDetectorRun ==
    [det |-> NewSpeechDetector, n |-> 0, change |-> "none", edges |-> <<>>,
     clears |-> 0, cleared_at |-> 0, copies |-> 0]

\* RadPairHandler.__init__ and the study_types event of websocket_endpoint
Init ==
    /\ pc = "loop"
    /\ is_recording = FALSE
    /\ current_study_type = ""
    /\ turn_count = 0
    /\ current_turn = None
    /\ completed_segments = <<>>
    /\ audio_file_paths = <<>>
    /\ polish_client = FALSE
    /\ speech_detector = NewSpeechDetector
    /\ turns = <<>>
    /\ sessions = <<>>
    /\ events = << Event("study_types", <<>>, 0, "") >>
    /\ polish_inputs = <<>>
    /\ polish_outputs = <<>>
    /\ nframes = 0
    /\ nctl = 0
    /\ faults = 0
    /\ vad_run = NewRun
    /\ pad_run = NewPair
    /\ refine_run = NewRefine
    /\ macro_run = NewMacroRun
    /\ expand_run = NewExpandRun
    /\ record_run = NewRecording
    /\ det_run = NewDetectorRun

Receiving == pc = "loop"

\* the turns and sessions with those of object cur replaced
Put(ts, cur, x) ==
    [turns    |-> [ts.turns EXCEPT ![cur] = x.turn],
     sessions |-> [ts.sessions EXCEPT ![cur] = x.sess]]

\* the way out of websocket_endpoint once a client send has raised: an
\* exception that reaches the except clause of the message loop makes its
\* send_json raise, and one that was swallowed makes the next receive raise;
\* either way the finally block runs: __aexit__ on the current turn
Finally(ts, cur) ==
    IF cur # None
    THEN Put(ts, cur, aexit([turn |-> ts.turns[cur], sess |-> ts.sessions[cur]],
                            Out(<<>>, 0)))
    ELSE ts

\* the message loop after a handler: it goes on, or the socket is gone
AfterHandler(out, ts, cur) ==
    IF out.failed
    THEN [pc |-> "closed", ts |-> Finally(ts, cur)]
    ELSE [pc |-> "loop", ts |-> ts]

\* the loop position and the turn objects a handler leaves
Resume(ah) ==
    /\ pc' = ah.pc
    /\ turns' = ah.ts.turns
    /\ sessions' = ah.ts.sessions

\* the turn objects of the connection
Objects == [turns |-> turns, sessions |-> sessions]

\* the current turn and its session
Current == [turn |-> turns[current_turn], sess |-> sessions[current_turn]]

\* the frame handle_audio_chunk works on
NextFrame(len) == PadFrame([id |-> nframes + 1, len |-> len])

\* "bytes" message while not recording: dropped.  Frames are numbered as
\* handle_audio_chunk receives them, so nothing at all changes
AudioIgnored ==
    /\ Receiving
    /\ ~is_recording
    /\ UNCHANGED vars

\* a handle_audio_chunk without its trailing add_audio
ForwardNothing(cur, audio_data, ok) == Objects

\* the trailing add_audio of handle_audio_chunk
Forward(cur, audio_data, ok) ==
    IF cur # None
    THEN Put(Objects, cur, add_audio(Current, audio_data, ok, FALSE))
    ELSE Objects

PlainStep(pr, ts) ==
    /\ ~OpensTurn(pr.change, current_turn)
    /\ ~EndsTurn(pr.change, current_turn)
    /\ speech_detector' = pr.det
    /\ turns' = ts.turns
    /\ sessions' = ts.sessions

\* handle_audio_chunk, no branch taken: the frame goes to the current turn
AudioPlain ==
    /\ Receiving /\ nframes < MaxFrames
    /\ is_recording
    /\ \E len \in FrameLens, rms \in Energies, ok \in BOOLEAN :
         /\ (~ok => current_turn # None /\ faults < MaxFaults)
         /\ PlainStep(process_chunk(speech_detector, NextFrame(len), rms),
                      Forward(current_turn, NextFrame(len), ok))
         /\ faults' = faults + Bool2Nat(~ok)
    /\ nframes' = nframes + 1
    /\ UNCHANGED <<pc, is_recording, current_study_type, turn_count,
                   current_turn, completed_segments, audio_file_paths,
                   polish_client, events, polish_inputs, polish_outputs, nctl, vad_run, pad_run, refine_run, macro_run,
                   expand_run, record_run,
                   det_run>>

\* the pre-context chunks of the speech_start branch
PreContext(buffer) == IF buffer # <<>> THEN pre_context(buffer) ELSE <<>>

\* the speech_start branch after __aenter__ and the trailing add_audio: the
\* send of add_audio call number failAt fails (0: none)
OpenTurn(en, pre, audio_data, failAt) ==
    add_audio(AddChunks([turn |-> en.turn, sess |-> en.sess], pre, 0, failAt),
              audio_data, failAt # Len(pre) + 1, FALSE)

OpenStep(pr, pre, ts, failAt) ==
    /\ OpensTurn(pr.change, current_turn)
    /\ failAt <= Len(pre) + 1
    /\ speech_detector' = pr.det
    /\ turns' = Append(turns, ts.turn)
    /\ sessions' = Append(sessions, ts.sess)

\* handle_audio_chunk, speech_start branch, __aenter__ returns
AudioOpensTurn ==
    /\ Receiving /\ nframes < MaxFrames
    /\ is_recording
    /\ \E len \in FrameLens, rms \in Energies, failAt \in 0..(PRE_CONTEXT_CHUNKS + 1) :
         /\ faults + Bool2Nat(failAt > 0) <= MaxFaults
         /\ OpenStep(process_chunk(speech_detector, NextFrame(len), rms),
                     PreContext(get_buffer(
                        process_chunk(speech_detector, NextFrame(len), rms).det)),
                     OpenTurn(aenter(NewTurn(turn_count + 1, current_study_type, "de-DE"),
                                     "ok"),
                              PreContext(get_buffer(
                                 process_chunk(speech_detector, NextFrame(len), rms).det)),
                              NextFrame(len), failAt),
                     failAt)
         /\ faults' = faults + Bool2Nat(failAt > 0)
    /\ turn_count' = turn_count + 1
    /\ current_turn' = Len(turns) + 1
    /\ nframes' = nframes + 1
    /\ UNCHANGED <<pc, is_recording, current_study_type, completed_segments,
                   audio_file_paths, polish_client, events, polish_inputs, polish_outputs, nctl, vad_run, pad_run, refine_run, macro_run,
                   expand_run, record_run,
                   det_run>>

OpenFailStep(pr, en, out) ==
    /\ OpensTurn(pr.change, current_turn)
    /\ speech_detector' = pr.det
    /\ events' = out.events
    /\ Resume(AfterHandler(out, [turns |-> Append(turns, en.turn),
                                 sessions |-> Append(sessions, en.sess)],
                           current_turn))

\* handle_audio_chunk, speech_start branch, __aenter__ raises: the exception
\* reaches the except clause of the message loop, which sends an error event
AudioOpenFails ==
    /\ Receiving /\ nframes < MaxFrames
    /\ is_recording
    /\ faults < MaxFaults
    /\ \E len \in FrameLens, rms \in Energies,
          outcome \in {"connect_fail", "start_fail"}, left \in WsChoices(1) :
         OpenFailStep(process_chunk(speech_detector, NextFrame(len), rms),
                      aenter(NewTurn(turn_count + 1, current_study_type, "de-DE"),
                             outcome),
                      Send(Out(events, left), Event("error", <<>>, 0, "exception")))
    /\ turn_count' = turn_count + 1
    /\ nframes' = nframes + 1
    /\ faults' = faults + 1
    /\ UNCHANGED <<is_recording, current_study_type, current_turn,
                   completed_segments, audio_file_paths, polish_client,
                   polish_inputs, polish_outputs, nctl, vad_run, pad_run, refine_run, macro_run,
                   expand_run, record_run,
                   det_run>>

CloseExited(x, result, segments, paths) ==
    [turn |-> x.turn, sess |-> x.sess, out |-> x.out, result |-> result,
     segments |-> segments, paths |-> paths]

\* a force-end sequence that forgets __aexit__
CloseFinalizedNoExit(f, segments, paths) ==
    CloseExited([turn |-> f.turn, sess |-> f.sess, out |-> f.out], f.result,
                StoreSegment(segments, f.result), TrackAudio(paths, f.turn))

CloseFinalized(f, segments, paths) ==
    CloseExited(aexit([turn |-> f.turn, sess |-> f.sess], f.out), f.result,
                StoreSegment(segments, f.result), TrackAudio(paths, f.turn))

\* a force-end sequence that hands the turn one more chunk before finalize
CloseTurnWithAudio(ts, out, stream, fault, segments, paths) ==
    CloseFinalized(finalize(add_audio(ts, ts.turn.audio_chunks[1], TRUE, FALSE),
                            out, stream, fault),
                   segments, paths)

\* the force-end sequence shared by the speech_end branch and stop_recording:
\* finalize, track the audio file, __aexit__, store the segment
CloseTurn(ts, out, stream, fault, segments, paths) ==
    CloseFinalized(finalize(ts, out, stream, fault), segments, paths)

\* the number of client sends a handler makes when none raises
SendCount(out) == Len(out.events) - Len(events)

EndStep(pr, c) ==
    /\ events' = c.out.events
    /\ Resume(AfterHandler(c.out, Put(Objects, current_turn, c), None))
    /\ completed_segments' = c.segments
    /\ audio_file_paths' = c.paths
    /\ speech_detector' = clear_buffer(pr.det)

\* handle_audio_chunk, speech_end branch
AudioEndsTurn ==
    /\ Receiving /\ nframes < MaxFrames
    /\ is_recording
    /\ current_turn # None
    /\ \E len \in FrameLens, rms \in Energies :
       /\ EndsTurn(process_chunk(speech_detector, NextFrame(len), rms).change,
                   current_turn)
       /\ \E stream \in Streams :
          \E fault \in FinalizeFaults(stream) :
          \E left \in WsChoices(SendCount(
                     CloseTurn(Current, Out(events, -1), stream, fault,
                               completed_segments, audio_file_paths).out)) :
         /\ faults + FaultCost(fault) <= MaxFaults
         /\ EndStep(process_chunk(speech_detector, NextFrame(len), rms),
                    CloseTurn(Current, Out(events, left), stream, fault,
                              completed_segments, audio_file_paths))
         /\ faults' = faults + FaultCost(fault)
    /\ current_turn' = None
    /\ nframes' = nframes + 1
    /\ UNCHANGED <<is_recording, current_study_type, turn_count,
                   polish_client, polish_inputs, polish_outputs, nctl, vad_run, pad_run, refine_run, macro_run,
                   expand_run, record_run,
                   det_run>>

StartStep(out) ==
    /\ events' = out.events
    /\ Resume(AfterHandler(out, Objects, current_turn))

\* study_type or DEFAULT_STUDY_TYPE
StudyType(study) == IF study = "" THEN DEFAULT_STUDY_TYPE ELSE study

\* "start_recording" message: start_recording(data.get("study_type", DEFAULT))
StartRecording ==
    /\ Receiving /\ nctl < MaxCtl
    /\ \E study \in StudyInputs, left \in WsChoices(1) :
         /\ current_study_type' = StudyType(study)
         /\ StartStep(Send(Out(events, left),
                           Event("status", <<>>, 0, StudyType(study))))
    /\ is_recording' = TRUE
    /\ turn_count' = 0
    /\ completed_segments' = <<>>
    /\ audio_file_paths' = <<>>
    /\ nctl' = nctl + 1
    /\ UNCHANGED <<current_turn, polish_client, speech_detector, polish_inputs, polish_outputs,
                   nframes, faults, vad_run, pad_run, refine_run, macro_run,
                   expand_run, record_run,
                   det_run>>

\* stop_recording without an active turn: nothing is closed
NoClose(out0) ==
    [turn |-> <<>>, sess |-> <<>>, out |-> out0, result |-> <<>>,
     segments |-> completed_segments, paths |-> audio_file_paths]

\* the else branch of stop_recording's polish decision
NoPolish(out) ==
    [out |-> SendAll(out, << Event("status", <<>>, 0, "Keine Aufnahme zum Polieren") >>),
     inputs |-> <<>>, outputs |-> <<>>, client |-> FALSE]

StopPolished(cur, c, p) ==
    [ts  |-> IF cur # None THEN Put(Objects, cur, c) ELSE Objects,
     det |-> IF cur # None THEN clear_buffer(speech_detector) ELSE speech_detector,
     segments |-> c.segments, paths |-> c.paths, out |-> p.out,
     inputs |-> p.inputs, outputs |-> p.outputs, client |-> p.client,
     polishes |-> p.inputs # <<>>]

StopClosed(cur, c, outcome) ==
    StopPolished(cur, c, IF c.segments # <<>>
                         THEN create_polish(c.segments, c.out, outcome)
                         ELSE NoPolish(c.out))

\* a stop_recording that does not force-end the current turn
stop_recordingKeepsTurn(cur, out0, stream, fault, outcome) ==
    StopClosed(None, NoClose(out0), outcome)

\* stop_recording: the turn, session, events, segments, paths, detector and
\* polish results it leaves
stop_recording(cur, out0, stream, fault, outcome) ==
    StopClosed(cur,
               IF cur # None
               THEN CloseTurn(Current, out0, stream, fault, completed_segments,
                              audio_file_paths)
               ELSE NoClose(out0),
               outcome)

StopStep(r, outcome) ==
    /\ (~r.polishes => outcome.ok)
    /\ events' = r.out.events
    /\ Resume(AfterHandler(r.out, r.ts, None))
    /\ completed_segments' = r.segments
    /\ audio_file_paths' = r.paths
    /\ speech_detector' = r.det
    /\ polish_client' = (polish_client \/ r.client)
    /\ polish_inputs' = polish_inputs \o r.inputs
    /\ polish_outputs' = polish_outputs \o r.outputs

\* "stop_recording" message
StopRecording ==
    /\ Receiving /\ nctl < MaxCtl
    /\ \E stream \in (IF current_turn # None THEN Streams ELSE {<<>>}),
          outcome \in PolishOutcomes :
       \E fault \in (IF current_turn # None THEN FinalizeFaults(stream) ELSE {NoFault}) :
       \E left \in WsChoices(SendCount(
                     stop_recording(current_turn, Out(events, -1), stream, fault,
                                    outcome).out)) :
         /\ faults + FaultCost(fault) + Bool2Nat(~outcome.ok) <= MaxFaults
         /\ StopStep(stop_recording(current_turn, Out(events, left), stream,
                                    fault, outcome), outcome)
         /\ faults' = faults + FaultCost(fault) + Bool2Nat(~outcome.ok)
    /\ is_recording' = FALSE
    /\ current_turn' = None
    /\ nctl' = nctl + 1
    /\ UNCHANGED <<current_study_type, turn_count, nframes, vad_run, pad_run, refine_run, macro_run,
                   expand_run, record_run,
                   det_run>>

\* "clear_transcript" message: its type matches no branch of the dispatch,
\* so the message is read and dropped
ClearTranscript ==
    /\ Receiving /\ nctl < MaxCtl
    /\ nctl' = nctl + 1
    /\ UNCHANGED <<pc, is_recording, current_study_type, turn_count, current_turn,
                   completed_segments, audio_file_paths, polish_client,
                   speech_detector, turns, sessions, events, polish_inputs,
                   polish_outputs, nframes, faults, vad_run, pad_run, refine_run, macro_run,
                   expand_run, record_run,
                   det_run>>

\* what makes a text message malformed: json.loads raises on its text, or
\* data["type"] raises on a message without the field
MalformedInputs == {"JSONDecodeError", "KeyError"}

\* a message loop whose except clause leaves the loop
AfterMalformedBreak(out) ==
    [pc |-> "closed", ts |-> Finally(Objects, current_turn)]

\* the message loop after the except clause sent its error event
AfterMalformed(out) == AfterHandler(out, Objects, current_turn)

MalformedStep(out) ==
    /\ events' = out.events
    /\ Resume(AfterMalformed(out))

\* a malformed text message: the exception reaches the except clause of the
\* message loop, which sends an error event
MalformedControl ==
    /\ Receiving /\ nctl < MaxCtl
    /\ \E cause \in MalformedInputs, left \in WsChoices(1) :
         MalformedStep(Send(Out(events, left), Event("error", <<>>, 0, cause)))
    /\ nctl' = nctl + 1
    /\ UNCHANGED <<is_recording, current_study_type, turn_count, current_turn,
                   completed_segments, audio_file_paths, polish_client,
                   speech_detector, polish_inputs, polish_outputs, nframes, faults,
                   vad_run, pad_run, refine_run, macro_run, expand_run, record_run,
                   det_run>>

DisconnectStep(ts) ==
    /\ turns' = ts.turns
    /\ sessions' = ts.sessions

\* the client goes away: receive raises, the finally block runs
Disconnect ==
    /\ Receiving
    /\ DisconnectStep(Finally(Objects, current_turn))
    /\ pc' = "closed"
    /\ UNCHANGED <<is_recording, current_study_type, turn_count, current_turn,
                   completed_segments, audio_file_paths, polish_client,
                   speech_detector, events, polish_inputs, polish_outputs, nframes, nctl, faults, vad_run, pad_run, refine_run, macro_run,
                   expand_run, record_run,
                   det_run>>

Next ==
    \/ AudioIgnored
    \/ AudioPlain
    \/ AudioOpensTurn
    \/ AudioOpenFails
    \/ AudioEndsTurn
    \/ StartRecording
    \/ StopRecording
    \/ ClearTranscript
    \/ MalformedControl
    \/ Disconnect

Spec == Init /\ [][Next]_vars

\* SpeechDetector.process_chunk called on a detector of its own
ProcessChunk ==
    /\ Len(vad_run.chunks) < MaxChunks
    /\ \E inp \in RunInputs :
         vad_run' = RunChunk(vad_run,
                             process_chunk(vad_run.det,
                                           [id |-> Len(vad_run.chunks) + 1,
                                            len |-> inp.len], inp.rms),
                             inp)
    /\ UNCHANGED <<pc, is_recording, current_study_type, turn_count,
                   current_turn, completed_segments, audio_file_paths,
                   polish_client, speech_detector, turns, sessions, events,
                   polish_inputs, polish_outputs, nframes, nctl, faults, pad_run, refine_run, macro_run,
                   expand_run, record_run,
                   det_run>>

NextVAD == ProcessChunk

SpecVAD == Init /\ [][NextVAD]_vars

\* the speech_end branch of handle_audio_chunk on such a handler
HandlerEnds(h, pr, c) ==
    [h EXCEPT !.det = clear_buffer(pr.det), !.cur = None, !.ts = <<>>,
              !.closed = Append(@, [turn |-> c.turn, sess |-> c.sess]),
              !.segments = c.segments, !.paths = c.paths,
              !.events = c.out.events, !.edges = Append(@, pr.change)]

\* the speech_start branch with its trailing add_audio
HandlerOpens(h, pr, ts) ==
    [h EXCEPT !.det = pr.det, !.turn_count = @ + 1, !.cur = 1, !.ts = ts,
              !.edges = Append(@, pr.change)]

\* no branch: the trailing add_audio when there is a turn
HandlerForwards(h, pr, audio_data) ==
    [h EXCEPT !.det = pr.det,
              !.ts = IF h.cur # None THEN add_audio(h.ts, audio_data, TRUE, FALSE)
                     ELSE h.ts,
              !.edges = Append(@, pr.change)]

\* handle_audio_chunk after the odd-length fix and process_chunk
HandleChunk(h, audio_data, pr, stream) ==
    IF OpensTurn(pr.change, h.cur)
    THEN HandlerOpens(h, pr,
                      OpenTurn(aenter(NewTurn(h.turn_count + 1, "", "de-DE"), "ok"),
                               PreContext(get_buffer(pr.det)), audio_data, 0))
    ELSE IF EndsTurn(pr.change, h.cur)
    THEN HandlerEnds(h, pr,
                     CloseTurn(h.ts, Out(h.events, -1), stream, NoFault,
                               h.segments, h.paths))
    ELSE HandlerForwards(h, pr, audio_data)

\* handle_audio_chunk as a function of the handler, the frame received, the
\* RMS energy of its samples once it has an even length, and what the
\* session delivers if the frame ends the turn
handle_audio_chunk(h, audio_data, rms, stream) ==
    HandleChunk(h, PadFrame(audio_data),
                process_chunk(h.det, PadFrame(audio_data), rms), stream)

\* the frame with a zero byte appended when its length is odd
ZeroAppended(audio_data) ==
    [audio_data EXCEPT !.len = IF @ % 2 = 1 THEN @ + 1 ELSE @]

\* the frame both handlers of the pair get next
PairFrame(len) == [id |-> pad_run.n + 1, len |-> len]

\* handle_audio_chunk called on both handlers of the pair with the same
\* frame, as it arrived and with the zero byte appended
HandlePair ==
    /\ pad_run.n < MaxPadFrames
    /\ \E len \in FrameLens, rms \in Energies, stream \in Streams :
         /\ (stream # <<>> =>
               EndsTurn(process_chunk(pad_run.even.det, ZeroAppended(PairFrame(len)),
                                      rms).change, pad_run.even.cur))
         /\ pad_run' =
              [raw  |-> handle_audio_chunk(pad_run.raw, PairFrame(len), rms, stream),
               even |-> handle_audio_chunk(pad_run.even, ZeroAppended(PairFrame(len)),
                                           rms, stream),
               n    |-> pad_run.n + 1,
               odd  |-> pad_run.odd + (len % 2)]
    /\ UNCHANGED <<pc, is_recording, current_study_type, turn_count,
                   current_turn, completed_segments, audio_file_paths,
                   polish_client, speech_detector, turns, sessions, events,
                   polish_inputs, polish_outputs, nframes, nctl, faults, vad_run, refine_run, macro_run,
                   expand_run, record_run,
                   det_run>>

SpecPad == Init /\ [][HandlePair]_vars

\* a turn ends with a result, and the recording is stopped on the segments
\* so far: the combine step of _create_polish
RefineSegments ==
    /\ Len(refine_run.segments) < MaxSegments
    /\ \E result \in SegmentInputs :
         refine_run' = Refined(StoreSegment(refine_run.segments, result))
    /\ UNCHANGED <<pc, is_recording, current_study_type, turn_count,
                   current_turn, completed_segments, audio_file_paths,
                   polish_client, speech_detector, turns, sessions, events,
                   polish_inputs, polish_outputs, nframes, nctl, faults, vad_run, pad_run,
                   macro_run,
                   expand_run, record_run,
                   det_run>>

SpecRefine == Init /\ [][RefineSegments]_vars

\* one more CSV row is read into the table
LoadMacro ==
    /\ ~macro_run.loaded
    /\ Len(macro_run.macros) < MaxMacros
    /\ \E row \in MacroRowInputs :
         macro_run' = [macro_run EXCEPT
                         !.macros = LoadRow(@, row.phrase, row.expanded)]
    /\ UNCHANGED <<pc, is_recording, current_study_type, turn_count,
                   current_turn, completed_segments, audio_file_paths,
                   polish_client, speech_detector, turns, sessions, events,
                   polish_inputs, polish_outputs, nframes, nctl, faults, vad_run, pad_run,
                   refine_run,
                   expand_run, record_run,
                   det_run>>

\* _best_macro_match is called on the loaded table
ResolveMacro ==
    /\ \E phrase \in Candidates :
         macro_run' = [macros |-> macro_run.macros, loaded |-> TRUE,
                       phrase |-> phrase,
                       match |-> best_macro_match(macro_run.macros, phrase)]
    /\ UNCHANGED <<pc, is_recording, current_study_type, turn_count,
                   current_turn, completed_segments, audio_file_paths,
                   polish_client, speech_detector, turns, sessions, events,
                   polish_inputs, polish_outputs, nframes, nctl, faults, vad_run, pad_run,
                   refine_run,
                   expand_run, record_run,
                   det_run>>

NextMacro == LoadMacro \/ ResolveMacro

SpecMacro == Init /\ [][NextMacro]_vars

\* one more CSV row is read into the table of the expanding processor
LoadExpandMacro ==
    /\ ~expand_run.loaded
    /\ Len(expand_run.macros) < MaxExpandRows
    /\ \E row \in ExpandRowInputs :
         expand_run' = [expand_run EXCEPT
                          !.macros = LoadRow(@, row.phrase, row.expanded)]
    /\ UNCHANGED <<pc, is_recording, current_study_type, turn_count,
                   current_turn, completed_segments, audio_file_paths,
                   polish_client, speech_detector, turns, sessions, events,
                   polish_inputs, polish_outputs, nframes, nctl, faults, vad_run, pad_run,
                   refine_run, macro_run, record_run,
                   det_run>>

\* process_transcript_macros is called on the loaded table
ExpandTranscript ==
    /\ \E text \in ExpandTexts :
         expand_run' = [macros |-> expand_run.macros, loaded |-> TRUE,
                        text |-> text,
                        result |-> process_transcript_macros(expand_run.macros, text)]
    /\ UNCHANGED <<pc, is_recording, current_study_type, turn_count,
                   current_turn, completed_segments, audio_file_paths,
                   polish_client, speech_detector, turns, sessions, events,
                   polish_inputs, polish_outputs, nframes, nctl, faults, vad_run, pad_run,
                   refine_run, macro_run, record_run,
                   det_run>>

NextExpand == LoadExpandMacro \/ ExpandTranscript

SpecExpand == Init /\ [][NextExpand]_vars

\* start_recording on such a handler
StartOn(h, study) ==
    [h EXCEPT !.turn_count = 0, !.segments = <<>>, !.paths = <<>>,
              !.events = Append(@, Event("status", <<>>, 0, StudyType(study)))]

\* stop_recording on such a handler after the force-end sequence c of its
\* turn: the polish decision on the segments
StopClosedOn(h, c, outcome) ==
    [h EXCEPT !.det = clear_buffer(@), !.cur = None, !.ts = <<>>,
              !.closed = Append(@, [turn |-> c.turn, sess |-> c.sess]),
              !.segments = c.segments, !.paths = c.paths,
              !.events = (IF c.segments # <<>>
                          THEN create_polish(c.segments, c.out, outcome)
                          ELSE NoPolish(c.out)).out.events]

\* stop_recording on such a handler that has no turn
StopIdleOn(h, outcome) ==
    [h EXCEPT !.events = (IF h.segments # <<>>
                          THEN create_polish(h.segments, Out(h.events, -1), outcome)
                          ELSE NoPolish(Out(h.events, -1))).out.events]

\* stop_recording on such a handler
StopOn(h, stream, outcome) ==
    IF h.cur # None
    THEN StopClosedOn(h, CloseTurn(h.ts, Out(h.events, -1), stream, NoFault,
                                   h.segments, h.paths), outcome)
    ELSE StopIdleOn(h, outcome)

\* "start_recording" message to the handler on its own
RecordStart ==
    /\ record_run.nctl < MaxRecCtl
    /\ \E study \in StudyInputs :
         record_run' = [record_run EXCEPT !.h = StartOn(@, study),
                                          !.is_recording = TRUE,
                                          !.nctl = @ + 1, !.idle_loud = 0]
    /\ UNCHANGED <<pc, is_recording, current_study_type, turn_count,
                   current_turn, completed_segments, audio_file_paths,
                   polish_client, speech_detector, turns, sessions, events,
                   polish_inputs, polish_outputs, nframes, nctl, faults, vad_run, pad_run,
                   refine_run, macro_run, expand_run,
                   det_run>>

\* "stop_recording" message to the handler on its own
RecordStop ==
    /\ record_run.nctl < MaxRecCtl
    /\ \E stream \in (IF record_run.h.cur # None THEN Streams ELSE {<<>>}),
          outcome \in {o \in PolishOutcomes : o.ok} :
         record_run' = [record_run EXCEPT !.h = StopOn(@, stream, outcome),
                                          !.is_recording = FALSE,
                                          !.nctl = @ + 1, !.idle_loud = 0]
    /\ UNCHANGED <<pc, is_recording, current_study_type, turn_count,
                   current_turn, completed_segments, audio_file_paths,
                   polish_client, speech_detector, turns, sessions, events,
                   polish_inputs, polish_outputs, nframes, nctl, faults, vad_run, pad_run,
                   refine_run, macro_run, expand_run,
                   det_run>>

\* the frame the handler on its own gets next
RecordedFrame(len) == [id |-> record_run.n + 1, len |-> len]

\* the run of frames above the threshold that the handler got without a
\* turn, after one more frame
IdleLoud(run, audio_data, rms) ==
    IF run.h.cur = None /\ calculate_energy(PadFrame(audio_data), rms) > energy_threshold
    THEN run.idle_loud + 1
    ELSE 0

\* "bytes" message to the handler on its own while it is recording
RecordFrame ==
    /\ record_run.is_recording
    /\ record_run.n < MaxRecFrames
    /\ \E len \in FrameLens, rms \in Energies, stream \in Streams :
         /\ (stream # <<>> =>
               EndsTurn(process_chunk(record_run.h.det, PadFrame(RecordedFrame(len)),
                                      rms).change, record_run.h.cur))
         /\ record_run' =
              [record_run EXCEPT
                 !.h = handle_audio_chunk(@, RecordedFrame(len), rms, stream),
                 !.n = @ + 1,
                 !.idle_loud = IdleLoud(record_run, RecordedFrame(len), rms)]
    /\ UNCHANGED <<pc, is_recording, current_study_type, turn_count,
                   current_turn, completed_segments, audio_file_paths,
                   polish_client, speech_detector, turns, sessions, events,
                   polish_inputs, polish_outputs, nframes, nctl, faults, vad_run, pad_run,
                   refine_run, macro_run, expand_run,
                   det_run>>

\* a "bytes" branch without the is_recording test
AudioDispatchAlways(h, recording, audio_data, rms, stream) ==
    handle_audio_chunk(h, audio_data, rms, stream)

\* the "bytes" branch of the message loop: handle_audio_chunk is called only
\* if handler.is_recording
AudioDispatch(h, recording, audio_data, rms, stream) ==
    IF recording THEN handle_audio_chunk(h, audio_data, rms, stream) ELSE h

\* "bytes" message to the handler on its own while it is not recording
RecordIdleFrame ==
    /\ ~record_run.is_recording
    /\ record_run.dropped < MaxDropped
    /\ \E len \in FrameLens, rms \in Energies :
         record_run' =
           [record_run EXCEPT
              !.h = AudioDispatch(@, record_run.is_recording, RecordedFrame(len),
                                  rms, <<>>),
              !.dropped = @ + 1,
              !.dropped_at = record_run.n]
    /\ UNCHANGED <<pc, is_recording, current_study_type, turn_count,
                   current_turn, completed_segments, audio_file_paths,
                   polish_client, speech_detector, turns, sessions, events,
                   polish_inputs, polish_outputs, nframes, nctl, faults, vad_run, pad_run,
                   refine_run, macro_run, expand_run,
                   det_run>>

NextRecord == RecordStart \/ RecordStop \/ RecordFrame \/ RecordIdleFrame

SpecRecord == Init /\ [][NextRecord]_vars

\* ------------------------------------------- a detector followed edge by edge
\* the run after one more process_chunk call returned pr
EdgeStep(run, pr) ==
    [run EXCEPT !.det = pr.det, !.n = @ + 1, !.change = pr.change,
                !.edges = IF pr.change = "none" THEN @ ELSE Append(@, pr.change)]

\* SpeechDetector.process_chunk on a full frame whose energy is at the
\* threshold or above it
EdgeChunk ==
    /\ det_run.n < MaxEdgeChunks
    /\ \E rms \in Energies :
         det_run' = EdgeStep(det_run,
                             process_chunk(det_run.det,
                                           [id |-> det_run.n + 1, len |-> 4], rms))
    /\ UNCHANGED <<pc, is_recording, current_study_type, turn_count,
                   current_turn, completed_segments, audio_file_paths,
                   polish_client, speech_detector, turns, sessions, events,
                   polish_inputs, polish_outputs, nframes, nctl, faults,
                   vad_run, pad_run, refine_run, macro_run, expand_run,
                   record_run>>

NextEdges == EdgeChunk

SpecEdges == Init /\ [][NextEdges]_vars

\* -------------------------------------------- a detector's pre-roll buffer
\* a get_buffer that hands out self.buffer itself
ReturnedOwn(d) == [list |-> d.buffer, own |-> TRUE]

\* what get_buffer hands out: a new list with the elements of the buffer
\* (list.copy), which is not the detector's own list object
Returned(d) == [list |-> get_buffer(d), own |-> FALSE]

\* the caller appends x to the list it was handed: the detector's buffer is
\* that list only when it was handed its own list object
CallerAppends(d, got, x) ==
    IF got.own THEN [d EXCEPT !.buffer = Append(got.list, x)] ELSE d

\* SpeechDetector.process_chunk on a full frame above the threshold (the
\* buffer is appended to before the energy is looked at)
BufferChunk ==
    /\ det_run.n < MaxBufferChunks
    /\ det_run' = EdgeStep(det_run,
                           process_chunk(det_run.det,
                                         [id |-> det_run.n + 1, len |-> 4], 2))
    /\ UNCHANGED <<pc, is_recording, current_study_type, turn_count,
                   current_turn, completed_segments, audio_file_paths,
                   polish_client, speech_detector, turns, sessions, events,
                   polish_inputs, polish_outputs, nframes, nctl, faults,
                   vad_run, pad_run, refine_run, macro_run, expand_run,
                   record_run>>

\* SpeechDetector.clear_buffer
ClearBuffer ==
    /\ det_run.clears < MaxClears
    /\ det_run' = [det_run EXCEPT !.det = clear_buffer(@),
                                  !.clears = @ + 1,
                                  !.cleared_at = det_run.n]
    /\ UNCHANGED <<pc, is_recording, current_study_type, turn_count,
                   current_turn, completed_segments, audio_file_paths,
                   polish_client, speech_detector, turns, sessions, events,
                   polish_inputs, polish_outputs, nframes, nctl, faults,
                   vad_run, pad_run, refine_run, macro_run, expand_run,
                   record_run>>

\* SpeechDetector.get_buffer, and the caller appending to the list it got
GetBuffer ==
    /\ det_run.copies < MaxCopies
    /\ det_run' = [det_run EXCEPT
                     !.det = CallerAppends(@, Returned(@), [id |-> 0, len |-> 0]),
                     !.copies = @ + 1]
    /\ UNCHANGED <<pc, is_recording, current_study_type, turn_count,
                   current_turn, completed_segments, audio_file_paths,
                   polish_client, speech_detector, turns, sessions, events,
                   polish_inputs, polish_outputs, nframes, nctl, faults,
                   vad_run, pad_run, refine_run, macro_run, expand_run,
                   record_run>>

NextBuffer == BufferChunk \/ ClearBuffer \/ GetBuffer

SpecBuffer == Init /\ [][NextBuffer]_vars

\* ------------------------------------------------- properties of the detector
\* chunk k of the run is above the threshold
Loud(run, k) ==
    calculate_energy([id |-> k, len |-> run.chunks[k].len], run.chunks[k].rms)
      > energy_threshold

\* the detector is Speaking when chunk k arrives: the last edge it returned
\* before, if any, was speech_start
RECURSIVE SpeakingAt(_, _)
SpeakingAt(run, k) ==
    IF k = 1 THEN FALSE
    ELSE IF run.changes[k - 1] = "speech_start" THEN TRUE
    ELSE IF run.changes[k - 1] = "speech_end" THEN FALSE
    ELSE SpeakingAt(run, k - 1)

\* the number of consecutive chunks up to and including k that are above
\* the threshold (loud = TRUE) or not above it (loud = FALSE)
RECURSIVE RunLength(_, _, _)
RunLength(run, k, loud) ==
    IF k = 0 \/ Loud(run, k) # loud THEN 0 ELSE 1 + RunLength(run, k - 1, loud)

\* C6: for every chunk sequence, a Silent detector returns speech_start on a
\* chunk exactly when that chunk is the 3rd consecutive chunk above the
\* threshold: never on the 1st or 2nd of a run, and a chunk that is not
\* above the threshold starts the count again
C6_SpeechStartOnThird ==
    \A k \in 1..Len(vad_run.chunks) :
      ~SpeakingAt(vad_run, k) =>
        /\ (vad_run.changes[k] = "speech_start") <=> (RunLength(vad_run, k, TRUE) = 3)
        /\ RunLength(vad_run, k, TRUE) \in 0..3

\* a run in which two loud chunks, a quiet chunk and three loud chunks led to
\* speech_start on the sixth chunk and on no chunk before
C6_Witness ==
    /\ Len(vad_run.chunks) = 6
    /\ Loud(vad_run, 1) /\ Loud(vad_run, 2) /\ ~Loud(vad_run, 3)
    /\ vad_run.changes[6] = "speech_start"
    /\ \A k \in 1..5 : vad_run.changes[k] = "none"

\* C7: for every chunk sequence, a Speaking detector returns speech_end on a
\* chunk exactly when that chunk is the 7th consecutive chunk not above the
\* threshold: never on the 1st to 6th of a run, and a chunk above the
\* threshold starts the silence count again
C7_SpeechEndOnSeventh ==
    \A k \in 1..Len(vad_run.chunks) :
      SpeakingAt(vad_run, k) =>
        /\ (vad_run.changes[k] = "speech_end") <=> (RunLength(vad_run, k, FALSE) = 7)
        /\ RunLength(vad_run, k, FALSE) \in 0..7

\* a run in which speech started on the third chunk and seven quiet chunks
\* led to speech_end on the tenth chunk and on no chunk before
C7_Witness ==
    /\ Len(vad_run.chunks) = 10
    /\ vad_run.changes[3] = "speech_start"
    /\ vad_run.changes[10] = "speech_end"
    /\ \A k \in 4..9 : vad_run.changes[k] = "none" /\ ~Loud(vad_run, k)

\* ------------------------------------------------ properties of a connection
\* turn i is active: opened (__aenter__ returned) and not yet closed
\* (__aexit__ not called)
Active(i) == turns[i].entered /\ turns[i].aexit_calls = 0

\* the except clause at `site` of the turn logged a failure of `cause`
HasError(turn, site, cause) ==
    \E k \in 1..Len(turn.errors) : turn.errors[k] = [site |-> site, cause |-> cause]

\* the step handles an audio frame in handle_audio_chunk
FrameStep == nframes' = nframes + 1

\* the frame the step handles, after padding
StepFrame == [id |-> nframes', len |-> 4]

\* the detector returned speech_start / speech_end for the step's frame
StartEdge == FrameStep /\ ~speech_detector.is_speaking /\ speech_detector'.is_speaking

EndEdge == FrameStep /\ speech_detector.is_speaking /\ ~speech_detector'.is_speaking

\* the frames of the entries of a session log that are pre-roll (pre = TRUE)
\* or live (pre = FALSE)
RECURSIVE FramesOf(_, _)
FramesOf(received, pre) ==
    IF received = <<>> THEN <<>>
    ELSE (IF Head(received).pre = pre THEN <<Head(received).frame>> ELSE <<>>)
         \o FramesOf(Tail(received), pre)

\* the last n elements of a sequence
LastN(seq, n) == [k \in 1..n |-> seq[Len(seq) - n + k]]

Min(a, b) == IF a <= b THEN a ELSE b

\* at most one turn is active, and it is the current turn
OneActiveTurn ==
    /\ Cardinality({i \in 1..Len(turns) : Active(i)}) <= 1
    /\ \A i \in 1..Len(turns) : Active(i) => i = current_turn

\* a frame handled while a turn is active opens no session and leaves the turn
\* counter alone, and a turn that stays active is handed the frame
InTurnFrame ==
    (FrameStep /\ current_turn # None) =>
      /\ turn_count' = turn_count
      /\ Len(turns') = Len(turns)
      /\ Len(sessions') = Len(sessions)
      /\ \A i \in 1..Len(sessions) : sessions'[i].acquired = sessions[i].acquired
      /\ current_turn' \in {None, current_turn}
      /\ current_turn' # None =>
           turns'[current_turn].audio_chunks
             = Append(turns[current_turn].audio_chunks, StepFrame)

\* C1: in every reachable state at most one turn is active (opened and not
\* yet closed); a frame that arrives while a turn is active, a speech_start
\* edge included, opens no new session and does not increment the turn
\* counter, and the frame is forwarded as ordinary in-turn audio
C1_AtMostOneActiveTurn == [](OneActiveTurn) /\ [][InTurnFrame]_vars

\* a turn that is active after loud frames went on arriving: the third loud
\* frame opened it, the following ones were forwarded to it
C1_Witness ==
    /\ current_turn = 1 /\ Len(turns) = 1 /\ turn_count = 1
    /\ Active(1)
    /\ speech_detector.speech_chunks = 5
    /\ Len(turns[1].audio_chunks) = 6

\* while a turn is active the detector is Speaking, so process_chunk cannot
\* return speech_start for a frame that arrives then
ActiveIsSpeaking == current_turn # None => speech_detector.is_speaking

\* C2: every session acquired for a turn is released exactly once on every
\* exit path of the turn: no session is released twice, and once the turn is
\* no longer the current turn, or the connection handler has returned, an
\* acquired session has been released
C2_SessionReleasedOnce ==
    \A i \in 1..Len(sessions) :
      sessions[i].acquired =>
        /\ sessions[i].released <= 1
        /\ (i # current_turn \/ pc = "closed") => sessions[i].released = 1

\* C3: when the connection terminates while a turn is active, that turn gets
\* exactly one finalize invocation and exactly one release of its session
\* before the handler returns
TerminatesMidTurn ==
    (pc = "loop" /\ pc' = "closed" /\ current_turn # None) =>
      /\ turns'[current_turn].finalize_calls = 1
      /\ sessions'[current_turn].released = 1

C3_DisconnectFinalizesOnce == [][TerminatesMidTurn]_vars

\* the step sent the error event of a malformed message and nothing else
MalformedSent ==
    /\ Len(events') = Len(events) + 1
    /\ events'[Len(events')].type = "error"
    /\ events'[Len(events')].message \in MalformedInputs

\* the step is stop_recording: it sends an event, or its send raises
StopMessageStep ==
    /\ nctl' = nctl + 1 /\ is_recording' = FALSE
    /\ (events' # events \/ pc' # pc)
    /\ ~MalformedSent

\* C4: stop_recording with an active turn force-finalizes it as speech_end
\* does: finalize and __aexit__ are called once, the session is released
\* once, a non-empty transcript is appended to the segments, the pre-roll
\* buffer is cleared and no turn stays active; the text handed to the polish
\* call is built from segments that already hold that transcript
StopsMidTurn ==
    (StopMessageStep /\ current_turn # None) =>
      /\ turns'[current_turn].finalize_calls = 1
      /\ turns'[current_turn].aexit_calls = 1
      /\ sessions'[current_turn].released = 1
      /\ completed_segments'
           = StoreSegment(completed_segments,
                          turns'[current_turn].accumulated_transcript)
      /\ speech_detector'.buffer = <<>>
      /\ current_turn' = None
      /\ polish_inputs' # polish_inputs =>
           polish_inputs' = Append(polish_inputs,
                                   CombinedTranscript(completed_segments'))

C4_StopForceFinalizes == [][StopsMidTurn]_vars

\* the session raised while the turn was opened, fed or finalized
SessionFailed(turn) ==
    \/ HasError(turn, "start", "session")
    \/ HasError(turn, "audio", "session")
    \/ HasError(turn, "finalize", "session")

\* the step ends the current turn: the speech_end branch or stop_recording
ClosingStep == current_turn # None /\ current_turn' = None

\* the step creates turn object i
NewObject(i) == i = Len(turns') /\ Len(turns') = Len(turns) + 1

\* the number of failures the except clause at `site` of the turn logged
ErrorCount(turn, site) ==
    Cardinality({k \in 1..Len(turn.errors) : turn.errors[k].site = site})

\* the step logs a failed audio send on turn i
AudioSendFails(i) ==
    ErrorCount(turns'[i], "audio")
      > (IF NewObject(i) THEN 0 ELSE ErrorCount(turns[i], "audio"))

\* C5 as stated: a turn on which opening, sending audio or finalizing failed
\* counts as an empty transcript: when it ends, no segment is added
FailedTurnAddsNothing ==
    /\ (ClosingStep /\ SessionFailed(turns'[current_turn])) =>
         /\ turns'[current_turn].accumulated_transcript = <<>>
         /\ completed_segments' = completed_segments
    /\ \A i \in 1..Len(turns') :
         (NewObject(i) /\ HasError(turns'[i], "start", "session")) =>
           current_turn' = None /\ completed_segments' = completed_segments

FailureHandling ==
    /\ (ClosingStep /\ HasError(turns'[current_turn], "finalize", "session")) =>
         /\ turns'[current_turn].accumulated_transcript = <<>>
         /\ completed_segments' = completed_segments
    /\ \A i \in 1..Len(turns') :
         /\ (NewObject(i) /\ HasError(turns'[i], "start", "session")) =>
              current_turn' = None /\ completed_segments' = completed_segments
         /\ AudioSendFails(i) =>
              current_turn' = i /\ completed_segments' = completed_segments
    /\ (StartEdge /\ current_turn = None) =>
         /\ NewObject(Len(turns'))
         /\ \/ /\ current_turn' = Len(turns')
               /\ turns'[current_turn'].entered
               /\ turns'[current_turn'].aexit_calls = 0
            \/ current_turn' = None
                 /\ HasError(turns'[Len(turns')], "start", "session")

OpeningStep == FrameStep /\ current_turn = None /\ current_turn' # None

\* the pre-roll of the turn the step opens: the last min(len(buffer), N)
\* frames of the detector's buffer when the edge is returned
PreRoll ==
    LastN(speech_detector'.buffer,
          Min(Len(speech_detector'.buffer), PRE_CONTEXT_CHUNKS))

PreRollFed ==
    OpeningStep =>
      /\ turns'[current_turn'].audio_chunks = PreRoll \o <<StepFrame>>
      /\ \A j, k \in 1..Len(sessions'[current_turn'].received) :
           (j < k /\ sessions'[current_turn'].received[k].pre)
             => sessions'[current_turn'].received[j].pre
      /\ faults' = faults =>
           FramesOf(sessions'[current_turn'].received, TRUE) = PreRoll

\* C8: the pre-roll fed to a newly opened turn is exactly the last
\* min(bufferSize, 5) frames the detector had recorded when it returned
\* speech_start, in their order, and it is delivered to the session before
\* any live frame of the turn
C8_PreRoll == [][PreRollFed]_vars

\* a turn opened on a buffer of six frames: its pre-roll is frames 2 to 6
C8_Witness ==
    /\ current_turn = 1
    /\ Len(speech_detector.buffer) = 6
    /\ FramesOf(sessions[1].received, TRUE)
         = << [id |-> 2, len |-> 4], [id |-> 3, len |-> 4], [id |-> 4, len |-> 4],
              [id |-> 5, len |-> 4], [id |-> 6, len |-> 4] >>

\* C9: within a turn the frames delivered to the session, pre-roll followed
\* by live frames, are strictly in arrival order: none before an earlier
\* frame, none twice
C9_ArrivalOrder ==
    \A i \in 1..Len(sessions) :
      \A j, k \in 1..Len(sessions[i].received) :
        j < k => sessions[i].received[j].frame.id < sessions[i].received[k].frame.id

\* every frame handled while a turn is active is handed to that turn's
\* add_audio
EveryFrameHanded ==
    (FrameStep /\ current_turn # None) =>
      turns'[current_turn].audio_chunks
        = Append(turns[current_turn].audio_chunks, StepFrame)

\* C10 as stated: every frame that arrives while a turn is active is
\* forwarded to that turn's session, whatever the detector returns for it
C10_EveryFrameForwarded == [][EveryFrameHanded]_vars

\* a frame that arrives while a turn is active is handed to add_audio, which
\* keeps it and sends it to the session, a failed send being logged; the
\* frame for which the detector returns speech_end is not handed over
FrameForwarded ==
    (FrameStep /\ current_turn # None) =>
      IF EndEdge
      THEN /\ current_turn' = None
           /\ turns'[current_turn].audio_chunks = turns[current_turn].audio_chunks
           /\ sessions'[current_turn].received = sessions[current_turn].received
      ELSE /\ current_turn' = current_turn
           /\ turns'[current_turn].audio_chunks
                = Append(turns[current_turn].audio_chunks, StepFrame)
           /\ IF AudioSendFails(current_turn)
              THEN sessions'[current_turn].received
                     = sessions[current_turn].received
              ELSE sessions'[current_turn].received
                     = Append(sessions[current_turn].received,
                              [frame |-> StepFrame, pre |-> FALSE])

\* C10 (amended): every frame that arrives while a turn is active is
\* forwarded to the turn's session unless the detector returns speech_end
\* for it; that frame ends the turn and is not forwarded
C10_ForwardedUnlessSpeechEnd == [][FrameForwarded]_vars

\* a turn that got a quiet frame forwarded and was then ended by the seventh
\* quiet frame, which it did not get: frames 1 to 9, of which 1 to 3 are
\* pre-roll and 3 comes again as the first live frame
C10_Witness ==
    /\ Len(turns) = 1 /\ current_turn = None
    /\ nframes = 10
    /\ turns[1].finalize_calls = 1
    /\ Len(turns[1].audio_chunks) = 10
    /\ turns[1].audio_chunks[10] = [id |-> 9, len |-> 4]

\* the concatenation of the first k texts a session delivered
RawPrefix(sess, k) == Concat(SubSeq(sess.yielded, 1, k))

\* the text is raw text of some turn: up to surrounding whitespace, the
\* concatenation of the texts a session had delivered at some point
Unexpanded(text) ==
    \E i \in 1..Len(sessions) :
      \E k \in 1..Len(sessions[i].yielded) :
        Strip(text) = Strip(RawPrefix(sessions[i], k))

\* C11: macro expansion is applied to a turn's text only after the whole raw
\* transcript was collected from the session: every partial_transcript event
\* sent to the client carries unexpanded text, the expanded text being only
\* in the turn's result and its final_transcript event
C11_PartialsUnexpanded ==
    \A n \in 1..Len(events) :
      events[n].type = "partial_transcript" => Unexpanded(events[n].text)

\* the partial_transcript events finalize sends carry unexpanded text
FinalizePartialsUnexpanded ==
    \A n \in 1..Len(events) :
      (events[n].type = "partial_transcript" /\ events[n].turn # 0)
        => Unexpanded(events[n].text)

\* the responses of a stream up to and including the first that signals
\* completion, all of them when none does
RECURSIVE UpToStop(_)
UpToStop(stream) ==
    IF stream = <<>> THEN <<>>
    ELSE IF Head(stream).stop THEN <<Head(stream)>>
    ELSE <<Head(stream)>> \o UpToStop(Tail(stream))

\* the non-empty texts of responses, in their order
RECURSIVE TextsOf(_)
TextsOf(responses) ==
    IF responses = <<>> THEN <<>>
    ELSE (IF Head(responses).text # <<>> THEN <<Head(responses).text>> ELSE <<>>)
         \o TextsOf(Tail(responses))

\* the except clause of finalize ran on the turn
FinalizeRaised(turn) ==
    HasError(turn, "finalize", "session") \/ HasError(turn, "finalize", "client")

\* the partial_transcript events the step sent
NewPartials ==
    {n \in (Len(events) + 1)..Len(events') : events'[n].type = "partial_transcript"}

\* a partial_transcript send of finalize raised: a text was received and its
\* event was not sent
PartialSendRaised(turn, sess) ==
    /\ HasError(turn, "finalize", "client")
    /\ Cardinality(NewPartials) < Len(sess.yielded)

\* what finalize returned in the step: the handler stores a non-empty result
FinalizeReturned(result) ==
    completed_segments' = StoreSegment(completed_segments, result)

\* finalize ran once in the step that ended the turn, signalled end-of-input
\* once, and, if nothing raised, consumed the stream up to the first
\* completion or to its close
DrainsToStop ==
    ClosingStep =>
      /\ turns'[current_turn].finalize_calls = 1
      /\ sessions'[current_turn].activity_end <= 1
      /\ ~FinalizeRaised(turns'[current_turn]) =>
           /\ sessions'[current_turn].activity_end = 1
           /\ sessions'[current_turn].yielded
                = TextsOf(UpToStop(sessions'[current_turn].stream))

\* C12 as stated: finalize returns the concatenation, in arrival order, of
\* every text received up to the first completion or the close of the stream
ReturnsConcatenation ==
    /\ DrainsToStop
    /\ (ClosingStep /\ ~FinalizeRaised(turns'[current_turn])) =>
         FinalizeReturned(Concat(sessions'[current_turn].yielded))

C12_FinalizeReturnsConcatenation == [][ReturnsConcatenation]_vars

\* finalize returns that concatenation trimmed and with its macro
\* invocations expanded; when a session call or a partial_transcript send
\* raised it returns the empty transcript the turn started with
ReturnsExpandedConcatenation ==
    /\ DrainsToStop
    /\ ClosingStep =>
         /\ FinalizeReturned(turns'[current_turn].accumulated_transcript)
         /\ turns'[current_turn].accumulated_transcript
              = (IF \/ HasError(turns'[current_turn], "finalize", "session")
                    \/ PartialSendRaised(turns'[current_turn],
                                         sessions'[current_turn])
                 THEN <<>>
                 ELSE MacroText(Strip(Concat(sessions'[current_turn].yielded))))

\* C12 (amended): finalize signals end-of-input once, consumes the session's
\* events in arrival order until the first completion or until the stream
\* closes, and returns the concatenation of the texts received up to there,
\* trimmed and macro-expanded, also when the stream closed without signalling
\* completion
C12_FinalizeDrains == [][ReturnsExpandedConcatenation]_vars

\* the first turn ended on a stream that signalled completion before its
\* last response, the second on a stream that closed without completion:
\* both gave their text
C12_Witness ==
    /\ Len(turns) = 2 /\ current_turn = None
    /\ Len(sessions[1].stream) = 3 /\ Len(sessions[1].yielded) = 2
    /\ Len(sessions[2].stream) = 1 /\ ~sessions[2].stream[1].stop
    /\ completed_segments = << <<"B", ".">>, <<"a", ".">> >>

\* -------------------------------------------- properties of the odd-length fix
\* the frames a handler forwarded to the sessions of its turns, closed and
\* current
RECURSIVE ClosedReceived(_)
ClosedReceived(closed) ==
    IF closed = <<>> THEN <<>>
    ELSE <<Head(closed).sess.received>> \o ClosedReceived(Tail(closed))

Forwarded(h) ==
    ClosedReceived(h.closed) \o (IF h.cur # None THEN <<h.ts.sess.received>> ELSE <<>>)

\* C13: for every frame sequence, the handler run on a sequence with
\* odd-length frames gives the same detector edges, the same pre-roll buffer
\* and the same frames forwarded to the sessions as the handler run on the
\* sequence in which each odd-length frame has one zero byte appended
C13_PaddingEquivalence ==
    /\ pad_run.raw.edges = pad_run.even.edges
    /\ pad_run.raw.det = pad_run.even.det
    /\ Forwarded(pad_run.raw) = Forwarded(pad_run.even)
    /\ pad_run.raw.segments = pad_run.even.segments

\* ten frames, all of odd length: the third opened a turn, whose pre-roll
\* and live frames went to the session, and the tenth ended it
C13_Witness ==
    /\ pad_run.n = 10 /\ pad_run.odd = 10
    /\ pad_run.raw.edges[3] = "speech_start"
    /\ pad_run.raw.edges[10] = "speech_end"
    /\ Len(Forwarded(pad_run.raw)) = 1
    /\ Len(Forwarded(pad_run.raw)[1]) = 10

\* ------------------------------------------- properties of the combine step
\* a sentence without surrounding whitespace and without its final period
Sentence(cand) ==
    IF EndsWith(Strip(cand), <<".">>)
    THEN Strip(SubSeq(Strip(cand), 1, Len(Strip(cand)) - 1))
    ELSE Strip(cand)

\* the sentences of a text: the non-empty pieces between ". "
RECURSIVE Sentences(_)
Sentences(cands) ==
    IF cands = <<>> THEN <<>>
    ELSE (IF Sentence(Head(cands)) # <<>> THEN <<Sentence(Head(cands))>> ELSE <<>>)
         \o Sentences(Tail(cands))

SentencesOf(text) == Sentences(Split(text, <<".", " ">>))

\* the first occurrences, in their order and casing, of the sentences that
\* differ when compared case-insensitively
RECURSIVE FirstOccurrences(_, _)
FirstOccurrences(sents, kept) ==
    IF sents = <<>> THEN kept
    ELSE FirstOccurrences(Tail(sents),
                          IF \E k \in 1..Len(kept) : Lower(kept[k]) = Lower(Head(sents))
                          THEN kept ELSE Append(kept, Head(sents)))

\* C14: for every sequence of turn segments the combine step (join the
\* non-empty segments with a space, split on ". ", deduplicate, rejoin)
\* outputs each distinct sentence, compared case-insensitively after
\* trimming, exactly once, in the casing of its first occurrence and in the
\* original order, and a non-empty result ends with a period
C14_EachSentenceOnce ==
    /\ SentencesOf(refine_run.combined)
         = FirstOccurrences(SentencesOf(Combined(refine_run.segments)), <<>>)
    /\ refine_run.combined # <<>> => EndsWith(refine_run.combined, <<".">>)

\* the combine step keeps each distinct piece of the split once, first
\* occurrence and order kept, and ends a non-empty result with a period
PiecesOnce ==
    /\ \A j, k \in 1..Len(Split(refine_run.combined, <<".", " ">>)) :
         j # k => Lower(Split(refine_run.combined, <<".", " ">>)[j])
                    # Lower(Split(refine_run.combined, <<".", " ">>)[k])
    /\ refine_run.combined # <<>> => EndsWith(refine_run.combined, <<".">>)

\* ------------------------------------------------ properties of the polish
\* the step called generate_content and the call failed
PolishFails ==
    /\ Len(polish_outputs') = Len(polish_outputs) + 1
    /\ ~polish_outputs'[Len(polish_outputs')].ok

\* the events the step sent
NewEvents == (Len(events) + 1)..Len(events')

RefinementFailure ==
    PolishFails =>
      /\ \A n \in NewEvents : events'[n].type # "polished_transcript"
      /\ pc' = "loop" =>
           /\ NewEvents # {}
           /\ events'[Len(events')].type = "error"
      /\ completed_segments' # <<>>
      /\ SubSeq(completed_segments', 1, Len(completed_segments)) = completed_segments
      /\ polish_inputs'[Len(polish_inputs')] = CombinedTranscript(completed_segments')

\* C15: when the refinement collaborator fails, the client (if it is still
\* connected) receives an error event and no polished_transcript event, and
\* the accumulated unrefined segments are left as they are: none is
\* discarded, and they still combine to the text that was handed over
C15_RefinementFailureKeepsSegments == [][RefinementFailure]_vars

\* a recording with a segment was stopped, the polish call failed, and the
\* connected client got the error event while the segment is still there
C15_Witness ==
    /\ pc = "loop"
    /\ Len(polish_outputs) = 1 /\ ~polish_outputs[1].ok
    /\ events[Len(events)].type = "error"
    /\ completed_segments = << <<"a", ".">> >>

\* stop_recording leaves no buffered segment, and a stop_recording that
\* follows another without a start_recording in between hands nothing to the
\* polish call and sends no polished_transcript
StopConsumes ==
    StopMessageStep =>
      /\ completed_segments' = <<>>
      /\ ~is_recording =>
           /\ polish_inputs' = polish_inputs
           /\ \A n \in NewEvents : events'[n].type # "polished_transcript"

\* C16: the transcript session is consumed at recording stop: after
\* stop_recording the buffered segments are empty, so a second
\* stop_recording without a start_recording in between hands nothing to the
\* refinement collaborator and emits no refined output
C16_StopConsumesSegments == [][StopConsumes]_vars

\* the segments are emptied by start_recording and by nothing else
SegmentsResetAtStart ==
    (completed_segments # <<>> /\ Len(completed_segments') < Len(completed_segments))
      => (is_recording' /\ nctl' = nctl + 1 /\ completed_segments' = <<>>)

SegmentsKeptUntilStart == [][SegmentsResetAtStart]_vars

\* ------------------------------------------------- properties of Append mode
\* the step is a clear_transcript command
ClearStep == nctl' = nctl + 1 /\ events' = events /\ pc' = pc /\ pc = "loop"

\* the combined text is sent as an accumulative_transcript event after every
\* turn: the non-empty segments joined by single spaces; clear_transcript
\* empties the segments
AppendMode ==
    /\ (ClosingStep /\ pc' = "loop") =>
         \E n \in NewEvents :
           /\ events'[n].type = "accumulative_transcript"
           /\ events'[n].text = Combined(completed_segments')
    /\ ClearStep => completed_segments' = <<>>

\* C17: in Append mode the combined text is always the non-empty segments
\* joined by single spaces (an empty segment adds nothing, no leading or
\* double space), it is emitted to the client as an accumulative_transcript
\* event after every turn, and a clear_transcript command empties it
C17_AppendMode == [][AppendMode]_vars

\* no accumulative_transcript event is ever sent, and a clear_transcript
\* command leaves the segments as they are
NoAppendMode ==
    /\ \A n \in NewEvents : events'[n].type # "accumulative_transcript"
    /\ ClearStep => completed_segments' = completed_segments

NeverAccumulative == [][NoAppendMode]_vars

\* ------------------------------------------- properties of macro resolution
\* the candidate of the run, lowercased and whitespace-collapsed
Normalized == normalize_phrase(macro_run.phrase)

\* the keys of the run's table
Keys == {macro_run.macros[i].phrase : i \in 1..Len(macro_run.macros)}

\* the keys that are the candidate's first i words, for 0 < i < all words
PrefixKeys ==
    {k \in Keys : \E i \in 1..(Len(Words(Normalized)) - 1) :
                     k = Prefix(Words(Normalized), i)}

\* the stage a candidate is decided in: 1 it is a key, 2 a word-prefix of it
\* is a key, 3 it contains a key or a key contains it, 4 a key is at least
\* 0.84 similar, 0 none of these
ExactHit == Normalized \in Keys

PrefixHit == PrefixKeys # {}

ContainmentHit ==
    \E k \in Keys : Contains(Normalized, k) \/ Contains(k, Normalized)

FuzzyHit ==
    \E k \in Keys : RatioNum(Normalized, k) * 100 >= min_ratio * RatioDen(Normalized, k)

FirstStage ==
    IF ExactHit THEN 1 ELSE IF PrefixHit THEN 2 ELSE IF ContainmentHit THEN 3
    ELSE IF FuzzyHit THEN 4 ELSE 0

\* C18: the four stages are tried in the order exact, progressive trim,
\* containment, fuzzy, and the first that matches decides: there is a result
\* exactly when some stage matches, it comes from the first such stage, and
\* a normalized candidate that is itself a key gets that key's expansion
\* whatever the later stages would match
C18_FirstStageWins ==
    macro_run.loaded =>
      /\ macro_run.match.found <=> FirstStage # 0
      /\ macro_run.match.stage = FirstStage
      /\ macro_run.match.found => macro_run.match.phrase \in Keys
      /\ ExactHit =>
           /\ macro_run.match.phrase = Normalized
           /\ macro_run.match.expanded = Expansion(macro_run.macros, Normalized)

\* "Leber  normal" on a table whose first key "leber" is a word-prefix of it
\* and contained in it: the exact key "leber normal" decides
C18_Witness ==
    /\ macro_run.loaded
    /\ Len(macro_run.macros) = 2
    /\ macro_run.macros[1].phrase = <<"l", "e", "b", "e", "r">>
    /\ macro_run.phrase = <<"L", "e", "b", "e", "r", " ", " ", "n", "o", "r", "m", "a", "l">>
    /\ macro_run.match.phrase = <<"l", "e", "b", "e", "r", " ", "n", "o", "r", "m", "a", "l">>
    /\ macro_run.match.expanded = <<"L">>

\* C19: when the normalized candidate is not a key but at least one proper
\* non-empty word-prefix of it is, the result is the longest such prefix key,
\* from stage 2, and not a key only containment or fuzzy matching would give
C19_LongestPrefixWins ==
    (macro_run.loaded /\ ~ExactHit /\ PrefixHit) =>
      /\ macro_run.match.found /\ macro_run.match.stage = 2
      /\ macro_run.match.phrase \in PrefixKeys
      /\ \A k \in PrefixKeys : Len(k) <= Len(macro_run.match.phrase)
      /\ macro_run.match.expanded
           = Expansion(macro_run.macros, macro_run.match.phrase)

\* "leber normal befund" on the table leber, leber normal: the result is
\* "leber normal", not the shorter prefix "leber" that comes first in the
\* table and is contained in the candidate
C19_Witness ==
    /\ macro_run.loaded
    /\ Len(macro_run.macros) = 2
    /\ macro_run.macros[1].phrase = <<"l", "e", "b", "e", "r">>
    /\ macro_run.phrase = <<"l", "e", "b", "e", "r", " ", "n", "o", "r", "m", "a", "l", " ", "b", "e", "f", "u", "n", "d">>
    /\ macro_run.match.phrase = <<"l", "e", "b", "e", "r", " ", "n", "o", "r", "m", "a", "l">>
    /\ macro_run.match.stage = 2

\* key j is at least as similar to the candidate as key k
AsSimilar(j, k) ==
    RatioNum(Normalized, j) * RatioDen(Normalized, k)
      >= RatioNum(Normalized, k) * RatioDen(Normalized, j)

\* the positions in the table of the keys with the highest similarity
BestPositions ==
    {i \in 1..Len(macro_run.macros) :
       \A k \in Keys : AsSimilar(macro_run.macros[i].phrase, k)}

\* C20: when stages 1 to 3 do not match, the fuzzy stage returns the key with
\* the highest similarity ratio if and only if that ratio is >= 0.84, and of
\* the keys with the highest ratio the first in table order
C20_FuzzyThreshold ==
    (macro_run.loaded /\ ~ExactHit /\ ~PrefixHit /\ ~ContainmentHit) =>
      IF FuzzyHit
      THEN /\ macro_run.match.found /\ macro_run.match.stage = 4
           /\ macro_run.match.phrase = macro_run.macros[MinOf(BestPositions)].phrase
           /\ macro_run.match.expanded = macro_run.macros[MinOf(BestPositions)].expanded
      ELSE ~macro_run.match.found

\* a candidate that has 21 of its 25 characters in common with a key of 25
\* characters, a ratio of exactly 0.84, is expanded to that key
C20_Witness ==
    /\ macro_run.loaded
    /\ macro_run.phrase = <<"a", "b", "c", "d", "e", "f", "g", "h", "i", "j", "k", "l", "m", "n", "o", "p", "q", "r", "s", "t", "u", "z", "z", "z", "z">>
    /\ RatioNum(Normalized, macro_run.match.phrase) * 100
         = 84 * RatioDen(Normalized, macro_run.match.phrase)
    /\ macro_run.match.stage = 4
    /\ macro_run.match.expanded = <<"Y">>

\* a candidate with a ratio of 5/6 to the nearest key is not expanded, and of
\* two keys 8/9 similar the first in the table is returned
FuzzyCases ==
    macro_run.loaded =>
      /\ (macro_run.phrase = <<"a", "b", "c", "d", "e", "f">> /\ Keys = {<<"a", "b", "c", "d", "e", "g">>})
           => ~macro_run.match.found
      /\ (macro_run.phrase = <<"a", "b", "c", "a", "b", "c", "a", "b", "f">> /\ Len(macro_run.macros) = 2
             /\ Keys = {<<"a", "b", "c", "a", "b", "c", "a", "b", "d">>, <<"a", "b", "c", "a", "b", "c", "a", "b", "e">>})
           => macro_run.match.phrase = macro_run.macros[1].phrase

\* ------------------------------------------------- properties of expansion
\* the invocations of a text: the matches of pattern p and of the patterns
\* after it, each pattern's matches from left to right
RECURSIVE InvocationsFrom(_, _)
InvocationsFrom(text, p) ==
    IF p > Len(invocation_patterns) THEN <<>>
    ELSE FindIter(text, invocation_patterns[p], 1) \o InvocationsFrom(text, p + 1)

\* the invocations of the run's transcript
ExpandInvocations == InvocationsFrom(expand_run.text, 1)

\* what the four stages give for the candidate of an invocation
Resolved(inv) == best_macro_match(expand_run.macros, Strip(inv.group2))

\* where the span of an invocation starts
SpanStart(inv) == inv.end - Len(inv.group0) + 1

\* C21: expand leaves the text unchanged wherever no stage matches: an
\* invocation whose candidate matches in none of the four stages is still in
\* the result literally, a text without an invocation is returned unchanged,
\* and with an empty table every text is returned unchanged
C21_UnmatchedLeftLiteral ==
    expand_run.loaded =>
      /\ expand_run.macros = <<>> => expand_run.result = expand_run.text
      /\ ExpandInvocations = <<>> => expand_run.result = expand_run.text
      /\ \A k \in 1..Len(ExpandInvocations) :
           ~Resolved(ExpandInvocations[k]).found
             => Contains(expand_run.result, ExpandInvocations[k].group0)

\* a text is returned unchanged when the table is empty, when it has no
\* invocation, and when none of its invocations matches in any stage
UnchangedWithoutMatch ==
    (/\ expand_run.loaded
     /\ \A k \in 1..Len(ExpandInvocations) : ~Resolved(ExpandInvocations[k]).found)
      => expand_run.result = expand_run.text

\* the invocations come one after the other in the text
InOrder(invs) ==
    \A k \in 1..(Len(invs) - 1) : invs[k].end < SpanStart(invs[k + 1])

\* the text from position pos on with the span of each matched invocation
\* replaced by the expansion resolved for it
RECURSIVE SpanWise(_, _, _)
SpanWise(text, invs, pos) ==
    IF invs = <<>> THEN SubSeq(text, pos, Len(text))
    ELSE SubSeq(text, pos, SpanStart(Head(invs)) - 1)
         \o (IF Resolved(Head(invs)).found THEN Resolved(Head(invs)).expanded
             ELSE Head(invs).group0)
         \o SpanWise(text, Tail(invs), Head(invs).end + 1)

\* C22: for every text and table each matched invocation span is replaced by
\* exactly the expansion resolved for that span: the result for a span does
\* not depend on the other spans, expansion text already inserted is not
\* altered by a later replacement, and identical spans are replaced
\* identically
C22_SpansReplacedByTheirExpansion ==
    (expand_run.loaded /\ InOrder(ExpandInvocations)) =>
      expand_run.result = SpanWise(expand_run.text, ExpandInvocations, 1)

\* the result is the text after the literal replacements of the matched
\* invocations, made one after the other on the whole text
RECURSIVE LiteralReplaced(_, _)
LiteralReplaced(result, invs) ==
    IF invs = <<>> THEN result
    ELSE LiteralReplaced(IF Resolved(Head(invs)).found
                         THEN Replace(result, Head(invs).group0,
                                      Resolved(Head(invs)).expanded)
                         ELSE result,
                         Tail(invs))

ReplacedOneAfterTheOther ==
    expand_run.loaded =>
      expand_run.result = LiteralReplaced(expand_run.text, ExpandInvocations)

\* ------------------------------------------------ properties of the table
\* C23: after any sequence of loads every key of the table is in normalized
\* form, lowercase and whitespace-collapsed, as the candidates are at lookup,
\* so that a candidate equal to a loaded phrase up to case and whitespace
\* matches it in the exact stage
C23_KeysNormalized ==
    /\ \A k \in Keys : k = normalize_phrase(k)
    /\ macro_run.loaded =>
         \A k \in Keys :
           normalize_phrase(k) = Normalized
             => /\ macro_run.match.found /\ macro_run.match.stage = 1
                /\ macro_run.match.phrase = Normalized

\* every key is lowercase and has no whitespace around it, and a candidate
\* that normalizes to a key matches it in the exact stage
KeysStrippedLowercased ==
    /\ \A k \in Keys : k = Lower(Strip(k))
    /\ (macro_run.loaded /\ Normalized \in Keys) =>
         /\ macro_run.match.stage = 1
         /\ macro_run.match.phrase = Normalized

\* ------------------------------------------ properties of the message loop
\* a malformed control message is answered with an error event, the loop
\* goes on, and the handler is as it was
MalformedReported ==
    (nctl' = nctl + 1 /\ MalformedSent) =>
      /\ pc' = "loop"
      /\ SubSeq(events', 1, Len(events)) = events
      /\ UNCHANGED <<is_recording, current_study_type, turn_count, current_turn,
                     completed_segments, audio_file_paths, speech_detector,
                     turns, sessions, polish_inputs,
                   det_run>>

\* C24: a malformed control message (unparseable JSON or no type field) gives
\* an error event to the connection and does not terminate it: the message
\* loop goes on with later control messages and audio frames, and recording
\* state, active turn and segments are unchanged
C24_MalformedControlReported == [][MalformedReported]_vars

\* a message without a type field was answered with an error event; the
\* start_recording after it was answered with its status event, and the
\* frames after that opened a turn
C24_Witness ==
    /\ pc = "loop" /\ is_recording
    /\ Len(events) = 3
    /\ events[2].type = "error" /\ events[2].message = "KeyError"
    /\ events[3].type = "status"
    /\ current_turn = 1 /\ Active(1)

\* --------------------------------------------- properties of turn numbers
\* C25: over the life of a connection each newly allocated turn gets a turn
\* number of at least 1 that is greater than the number of every turn
\* allocated before it on the connection
C25_TurnNumbersIncrease ==
    /\ \A i \in 1..Len(turns) : turns[i].turn_number >= 1
    /\ \A i, j \in 1..Len(turns) :
         i < j => turns[i].turn_number < turns[j].turn_number

\* the counter is incremented once by a frame that gets speech_start
\* without a current turn and by no other frame, the turn allocated gets the
\* new count as its number, and start_recording sets the counter to 0
CounterSteps ==
    /\ FrameStep =>
         IF StartEdge /\ current_turn = None
         THEN /\ turn_count' = turn_count + 1
              /\ NewObject(Len(turns'))
              /\ turns'[Len(turns')].turn_number = turn_count'
         ELSE turn_count' = turn_count /\ Len(turns') = Len(turns)
    /\ (nctl' = nctl + 1 /\ ~is_recording /\ is_recording') => turn_count' = 0

CounterPerRecording == [][CounterSteps]_vars

\* ----------------------------------------- properties of transcript events
\* in the step that ends a turn, by speech_end or by stop_recording, no
\* partial_transcript event is sent after the turn's final_transcript event
FinalIsLast ==
    ClosingStep =>
      \A m, n \in NewEvents :
        (m < n /\ events'[m].type = "final_transcript")
          => events'[n].type # "partial_transcript"

\* C26: for each turn final_transcript is the last transcript event of that
\* turn: after it was emitted no partial_transcript event is emitted for the
\* turn, on any closing path
C26_FinalIsLastTranscript == [][FinalIsLast]_vars

\* a partial_transcript event that follows the final_transcript event of the
\* turn repeats the text of that event and has no turn number
PartialAfterFinalRepeats ==
    ClosingStep =>
      \A m, n \in NewEvents :
        (m < n /\ events'[m].type = "final_transcript"
               /\ events'[n].type = "partial_transcript")
          => /\ n = m + 1
             /\ events'[n].text = Strip(events'[m].text)
             /\ events'[n].turn = 0

RepeatsFinalText == [][PartialAfterFinalRepeats]_vars

\* ------------------------------------------ properties across recordings
\* C27: whenever recording is on and no turn is active, a run of 3
\* consecutive frames above the threshold has a turn opened by its end, the
\* session opening without failure, in every recording of a connection and
\* after any earlier start_recording, stop_recording and frames, a
\* stop_recording that force-finalized a turn included
C27_ThreeLoudFramesOpenTurn ==
    record_run.idle_loud >= speech_start_chunks => record_run.h.cur # None

\* a run of 3 such frames leaves the handler without a turn only with a
\* detector that has been Speaking since before the run
NoTurnOnlyWhileSpeaking ==
    (record_run.idle_loud >= speech_start_chunks /\ record_run.h.cur = None)
      => record_run.h.det.is_speaking

\* the step is start_recording: it sends its status event, or the send raises
StartMessageStep ==
    /\ nctl' = nctl + 1 /\ is_recording'
    /\ turn_count' = 0 /\ completed_segments' = <<>>
    /\ (events' # events \/ pc' # pc)
    /\ ~MalformedSent

\* no turn is active when a recording begins, and a turn that ends has a
\* number the counter of the recording has reached, its result being stored
\* with the segments of the recording that opened it
TurnsStayInRecording ==
    /\ StartMessageStep =>
         \A i \in 1..Len(turns') :
           ~(turns'[i].entered /\ turns'[i].aexit_calls = 0)
    /\ ClosingStep => turns[current_turn].turn_number <= turn_count

\* C28: every segment handed to the refinement step at stop_recording comes
\* from a turn opened after the most recent start_recording, and every turn
\* is closed in the recording that opened it: a start_recording received
\* while a turn is active does not let the turn, its transcript or its
\* number into the new recording
C28_TurnsStayInRecording == [][TurnsStayInRecording]_vars

\* start_recording leaves the current turn as it is
StartKeepsTurn ==
    (StartMessageStep /\ pc' = "loop") =>
      /\ current_turn' = current_turn
      /\ turns' = turns /\ sessions' = sessions

StartLeavesTurnOpen == [][StartKeepsTurn]_vars

\* ------------------------------------------- properties of a closed session
\* a session that got ActivityEnd or was released gets no frame, and its turn
\* is handed none; the step that ends a turn delivers no frame to its session
NoLateAudio ==
    /\ \A i \in 1..Len(sessions) :
         (sessions[i].activity_end > 0 \/ sessions[i].released > 0)
           => /\ sessions'[i].received = sessions[i].received
              /\ turns'[i].audio_chunks = turns[i].audio_chunks
    /\ ClosingStep =>
         sessions'[current_turn].received = sessions[current_turn].received

\* C29: no audio frame is sent to a turn's session after end-of-input was
\* signalled to it or after it was released: the frame on which the turn is
\* finalized and all later frames are never delivered to that session
C29_NoAudioAfterEnd == [][NoLateAudio]_vars

\* the first turn was ended by the tenth frame and its session released; the
\* frames after it opened a second turn, and the session of the first holds
\* frames 1 to 9 only
C29_Witness ==
    /\ Len(turns) = 2 /\ current_turn = 2 /\ nframes = 13
    /\ sessions[1].activity_end = 1 /\ sessions[1].released = 1
    /\ Len(sessions[1].received) = 10
    /\ sessions[1].received[10].frame.id = 9
    /\ Len(sessions[2].received) = 4

\* --------------------------------------- properties of the recording state
\* while is_recording is false there is no current turn and no turn that
\* was opened and not closed
IdleWhileNotRecording ==
    ~is_recording =>
      /\ current_turn = None
      /\ \A i \in 1..Len(turns) : ~Active(i)

\* stop_recording leaves no current turn
StopLeavesIdle == StopMessageStep => current_turn' = None

\* C30: a turn is active only while recording is on: in every reachable
\* state where is_recording is false there is no active turn, and after
\* stop_recording returns the orchestrator is Idle
C30_ActiveOnlyWhileRecording == [](IdleWhileNotRecording) /\ [][StopLeavesIdle]_vars

\* stop_recording came while the turn opened by the third frame was active:
\* recording is off, the turn was finalized and closed, there is no current
\* turn
C30_Witness ==
    /\ ~is_recording /\ pc = "loop" /\ nframes = 3
    /\ Len(turns) = 1 /\ turns[1].entered
    /\ turns[1].finalize_calls = 1 /\ turns[1].aexit_calls = 1
    /\ current_turn = None

\* ------------------------------------------------- the detector's invariants
\* the edges returned so far are speech_start, speech_end, speech_start, ...
EdgesAlternate ==
    \A i \in 1..Len(det_run.edges) :
      det_run.edges[i] = IF i % 2 = 1 THEN "speech_start" ELSE "speech_end"

\* at most one of the two counters is non-zero
OneCounterRuns ==
    det_run.det.speech_chunks = 0 \/ det_run.det.silent_chunks = 0

\* a process_chunk call that changes is_speaking returns an edge
SpeakingChangesOnEdge ==
    det_run'.det.is_speaking # det_run.det.is_speaking
      => det_run'.n = det_run.n + 1 /\ det_run'.change # "none"

\* C31: for every frame sequence the edges the detector returns alternate
\* strictly, starting with speech_start; is_speaking changes only on a frame
\* that returns an edge; and after every processed frame at most one of
\* speech_chunks and silent_chunks is non-zero
C31_EdgesAlternate ==
    [](EdgesAlternate /\ OneCounterRuns) /\ [][SpeakingChangesOnEdge]_vars

\* twenty frames made the detector start, end, start and end speech, the
\* last edge on the twentieth frame
C31_Witness ==
    /\ det_run.n = 20
    /\ det_run.edges = <<"speech_start", "speech_end", "speech_start", "speech_end">>
    /\ det_run.change = "speech_end"
    /\ ~det_run.det.is_speaking
    /\ det_run.det.silent_chunks = speech_end_chunks

\* --------------------------------------------------- the pre-roll buffer
\* the buffer is never longer than the cap
BufferBounded == Len(det_run.det.buffer) <= BufferCap

\* the buffer holds the last Len(buffer) chunks given to process_chunk, in
\* arrival order, none of them from before the last clear_buffer
MostRecentSinceClear ==
    LET buffer == det_run.det.buffer
    IN  /\ Len(buffer) <= det_run.n - det_run.cleared_at
        /\ \A i \in 1..Len(buffer) :
             buffer[i] = [id |-> det_run.n - Len(buffer) + i, len |-> 4]

\* a process_chunk call adds one chunk to a buffer below the cap and leaves
\* 50 chunks of a buffer at the cap
TrimToFifty ==
    det_run'.n = det_run.n + 1
      => Len(det_run'.det.buffer) =
           IF Len(det_run.det.buffer) < BufferCap
           THEN Len(det_run.det.buffer) + 1
           ELSE BufferKeep

\* appending to the list get_buffer returned leaves the detector as it was
CopyIsDetached ==
    det_run'.copies = det_run.copies + 1 => det_run'.det = det_run.det

\* C32: after every processed frame the pre-roll buffer holds at most 100
\* frames, and they are the most recent frames processed since the last
\* clear, in arrival order (the 101st frame cuts it to the most recent 50);
\* get_buffer returns a copy, and a later change of that copy does not
\* change the detector's buffer
C32_BufferHoldsMostRecent ==
    /\ [](BufferBounded /\ MostRecentSinceClear)
    /\ [][TrimToFifty /\ CopyIsDetached]_vars

\* the 101st chunk after a clear_buffer call cut the buffer to the 50 most
\* recent chunks, after the caller had appended to a list from get_buffer
C32_Witness ==
    /\ det_run.clears = 1 /\ det_run.cleared_at = 1
    /\ det_run.copies = 1
    /\ det_run.n = 102
    /\ Len(det_run.det.buffer) = BufferKeep
    /\ det_run.det.buffer[1].id = 53

\* ------------------------------------------- the buffer across turns
\* the step empties a buffer that held frames
BufferEmptied == speech_detector.buffer # <<>> /\ speech_detector'.buffer = <<>>

\* a step that ends the current turn leaves the buffer empty, and no other
\* step empties it
EmptiedWhenTurnCloses ==
    /\ ClosingStep => speech_detector'.buffer = <<>>
    /\ BufferEmptied => ClosingStep

\* every frame in the buffer arrived after the frames handed to the turns
\* that are closed
BufferAfterClosedTurns ==
    \A j \in 1..Len(turns) : j # current_turn =>
      \A b \in 1..Len(turns[j].audio_chunks), k \in 1..Len(speech_detector.buffer) :
        speech_detector.buffer[k].id > turns[j].audio_chunks[b].id

\* every frame handed to a turn, its pre-roll included, arrived after the
\* frames handed to the turns before it
PreRollAfterEarlierTurns ==
    \A i, j \in 1..Len(turns) : j < i =>
      \A a \in 1..Len(turns[i].audio_chunks), b \in 1..Len(turns[j].audio_chunks) :
        turns[i].audio_chunks[a].id > turns[j].audio_chunks[b].id

\* C33: the orchestrator empties the pre-roll buffer each time a turn closes,
\* by speech_end or by stop_recording, and at no other moment, so the pre-roll
\* of a turn never contains a frame that arrived before the previous turn
\* closed
C33_BufferEmptiedOnClose ==
    /\ [][EmptiedWhenTurnCloses]_vars
    /\ [](BufferAfterClosedTurns /\ PreRollAfterEarlierTurns)

\* the first turn ended on frame 10 and the second opened on frame 13 with
\* frames 11 to 13 as its pre-roll
C33_Witness ==
    /\ current_turn = 2 /\ Active(2)
    /\ turns[1].aexit_calls = 1
    /\ turns[1].audio_chunks # <<>>
    /\ turns[2].audio_chunks
         = << [id |-> 11, len |-> 4], [id |-> 12, len |-> 4],
              [id |-> 13, len |-> 4], [id |-> 13, len |-> 4] >>

\* --------------------------------------------- audio while not recording
\* the step is a "bytes" message that arrives while recording is off
IdleFrameStep ==
    ~record_run.is_recording /\ record_run'.dropped = record_run.dropped + 1

\* the handler is as it was: detector, turn counter, current turn with its
\* session, closed turns, segments and events
HandlerUntouched ==
    /\ record_run'.h.det = record_run.h.det
    /\ record_run'.h.turn_count = record_run.h.turn_count
    /\ record_run'.h.cur = record_run.h.cur
    /\ record_run'.h.segments = record_run.h.segments
    /\ record_run'.h.ts = record_run.h.ts
    /\ record_run'.h.closed = record_run.h.closed
    /\ record_run'.h = record_run.h

\* C34: an audio frame received while recording is off changes nothing: the
\* detector (is_speaking, counters, buffer), the turn counter, the active
\* turn and the segments are unchanged and nothing is sent to a session
C34_IdleAudioIgnored == [][IdleFrameStep => HandlerUntouched]_vars

\* a frame arrived after stop_recording had force-ended a turn opened by
\* three frames: the detector is still Speaking with an empty buffer, and
\* the frame left it so
C34_Witness ==
    /\ record_run.dropped = 1 /\ record_run.dropped_at = 3
    /\ ~record_run.is_recording
    /\ record_run.nctl = 2
    /\ record_run.h.det.is_speaking
    /\ record_run.h.det.buffer = <<>>
    /\ Len(record_run.h.closed) = 1

\* ------------------------------------------------ an empty candidate phrase
\* the candidate of the invocation is empty once trimmed: only whitespace
\* follows the keyword
EmptyCandidate(inv) == Strip(inv.group2) = <<>>

\* C35: an invocation whose candidate phrase is empty after trimming is never
\* expanded: with a non-empty macro table the empty candidate resolves to no
\* match and the invocation stays in the text literally
C35_EmptyCandidateNotExpanded ==
    (expand_run.loaded /\ expand_run.macros # <<>>) =>
      \A k \in 1..Len(ExpandInvocations) :
        EmptyCandidate(ExpandInvocations[k]) =>
          /\ ~Resolved(ExpandInvocations[k]).found
          /\ Contains(expand_run.result, ExpandInvocations[k].group0)

\* with a non-empty table the empty candidate resolves in stage 3 to the
\* first key of the table, and the invocation is replaced by its expansion
EmptyCandidateTakesFirstKey ==
    (expand_run.loaded /\ expand_run.macros # <<>>) =>
      \A k \in 1..Len(ExpandInvocations) :
        EmptyCandidate(ExpandInvocations[k]) =>
          /\ Resolved(ExpandInvocations[k])
               = Match(expand_run.macros, expand_run.macros[1].phrase, 3)
          /\ ~Contains(expand_run.result, ExpandInvocations[k].group0)
====
